---- MODULE Spec2Model ----
(***************************************************************************)
(* Token-bucket rate limiter of rRateLimit/arg (main.go): RateLimiter,     *)
(* NewRateLimiter, Allow, Wait and the worker loop of main, driven by      *)
(* concurrent callers.                                                     *)
(*                                                                         *)
(* Time is counted in ticks of TickMs milliseconds.  The limiter only ever *)
(* uses the difference time.Now() - rl.lastUpdate, so the state keeps that *)
(* difference (sinceUpdate) instead of the two absolute instants.  It      *)
(* saturates at ElapsedCap, the first value whose refill fills the bucket  *)
(* whatever it held: beyond it min(tokens+tokensToAdd, burst) is burst, so *)
(* arbitrarily long idle periods are represented exactly.  TickMs = 500    *)
(* makes elapsed.Seconds() a dyadic fraction, for which the float64        *)
(* product of line 40 is exact and int() is the integer floor used here.   *)
(***************************************************************************)
EXTENDS Integers, FiniteSets, Sequences, TLC

\* ---- bounds of the model ----
TickMs == 500
MaxTime == 5
MaxRequests == 3
MaxRate == 3
MaxBurst == 2
FastRate == 1001
MaxHttpRequests == 4
InstanceBurst == 1
MaxStatsOps == 4
MaxStatsTime == 2
MaxCfg == 2
MaxSetOps == 3
MaxBuilderOps == 3
MaxKeyed == 2

\* the goroutines that call the limiter (main.go:91, go func(workerID int))
Procs == {1, 2}
Rates == 1..MaxRate
Bursts == 1..MaxBurst

\* values of the command-line flags -rate and -burst (main.go:67-68): main
\* hands them to NewRateLimiter as they are, so zero and rates beyond 1000
\* per second are among them
FlagRates == {0, FastRate} \cup Rates
FlagBursts == {0} \cup Bursts

\* the keys rl.keyFunc(r) gives for the requests of the model
Keys == {"a", "b"}

\* what a call of rl.limiterFactory() can do: return a limiter, return nil
\* (LimiterFactory is any func() RateLimiter), or panic
FactoryOutcomes == {"ok", "nil", "panic"}

\* the nil interface value of Go
Nil == 0

\* the limiter given to NewHTTPRateLimiter: the first instance of the heap
HttpLimiter == 1

\* net/http status codes written by the handlers
StatusOK == 200
StatusTooManyRequests == 429

\* time.Time{}, the zero time: before every time.Now() (which is >= 1 here)
ZeroTime == 0
DefaultRate == 10
DefaultBurst == 20
DefaultWindow == 1
DefaultErrorMessage == "Too Many Requests"

VARIABLES
  rate,         \* rl.rate
  burst,        \* rl.burst
  tokens,       \* rl.tokens
  sinceUpdate,  \* time.Now() - rl.lastUpdate, in ticks (saturating)
  mu,           \* rl.mu: 0 when free, else the goroutine holding it
  requests,     \* units of work not yet taken (requestChan)
  pc,           \* position of each goroutine
  mode,         \* "wait": inside rl.Wait(); "allow": a direct rl.Allow()
  elapsedL,     \* Allow's local `elapsed`, per goroutine
  preL,         \* history: rl.tokens as the call in progress found it
  ret,          \* the value the last Allow call returned to the goroutine
  sleepLeft,    \* remaining time of time.Sleep, in ticks
  waitOK,       \* history: Allow calls of the current Wait that were true
  slept,        \* history: the current Wait has slept at least once
  clock,        \* history: ticks since NewRateLimiter (saturating at MaxTime)
  admitted,     \* history: Allow calls that returned true
  credited,     \* history: sum of tokensToAdd over all calls
  busy,         \* history: every tick so far saw a call and ended with no token
  called,       \* history: an Allow call read the clock in this tick
  run           \* history: the calls made since a call last saw time elapse

\* package middleware (HTTPRateLimiter, PerKeyHTTPRateLimiter)
VARIABLES
  limiters,     \* PerKeyHTTPRateLimiter.limiters (sync.Map): key -> limiter
  heap,         \* the RateLimiter instances made so far: instance -> state
  hpc,          \* position of each goroutine serving a request
  req,          \* the request each goroutine is serving, or served last
  served        \* history: requests that have arrived

\* package stats (Stats)
VARIABLES
  stats,        \* the fields of the Stats value
  smu,          \* s.mu (sync.RWMutex): the writer (0: none) and the readers
  spc,          \* position of each goroutine inside a Stats method
  snap,         \* the StatsSnapshot each goroutine got last
  snow,         \* time.Now() of package stats, in ticks
  sops,         \* history: Stats methods called
  sreg,         \* the value each goroutine loaded for the ++ in progress, or 0
  scount,       \* history: Record calls since NewStats or the last Reset
  wrapped,      \* tokens of the limiter wrapped by RateLimiterWithStats
  dec           \* the RateLimiterWithStats call of each goroutine

\* package config (Config, ConfigSet, Builder)
VARIABLES
  cobjs,        \* the Config structs allocated so far: pointer -> fields
  cheap,        \* the slices and maps allocated so far: reference -> elements
  cset,         \* ConfigSet.configs: name -> pointer
  clog          \* history: the calls made so far, with what they returned

\* package middleware: keys (KeyFunc, KeyFuncs) and the fields of
\* HTTPRateLimiter that hold them
VARIABLES
  kfunc,        \* Options.KeyFunc of the PerKeyHTTPRateLimiter serving by key
  klog,         \* history: the requests it served, their keys and limiters
  hlimiters     \* HTTPRateLimiter.limiters: key -> limiter

limiterVars == <<rate, burst, tokens, sinceUpdate, mu, requests, pc, mode,
                 elapsedL, preL, ret, sleepLeft, waitOK, slept, clock,
                 admitted, credited, busy, called, run>>
httpVars == <<limiters, heap, hpc, req, served>>
statsVars == <<stats, smu, spc, snap, snow, sops, sreg, scount, wrapped,
               dec>>
configVars == <<cobjs, cheap, cset, clog>>
keyVars == <<kfunc, klog, hlimiters>>
others == <<httpVars, statsVars, configVars, keyVars>>

vars == <<limiterVars, httpVars, statsVars, configVars, keyVars>>

\* ---- pure functions ----

\* main.go:59  func min(a, b int) int
min(a, b) == IF a < b THEN a ELSE b

\* mutant of tokensToAdd: the product is rounded up instead of truncated
tokensToAddCeil(e, r) == (e * TickMs * r + 999) \div 1000

\* mutant of tokensToAdd: the seconds are truncated before the product
tokensToAddWholeSeconds(e, r) == ((e * TickMs) \div 1000) * r

\* main.go:40  int(elapsed.Seconds() * float64(rl.rate)), elapsed = e ticks
tokensToAdd(e, r) == (e * TickMs * r) \div 1000

\* main.go:55  time.Duration(1000/rl.rate) * time.Millisecond, in ms
SleepMs(r) == 1000 \div r

\* time.Sleep(d) returns after at least d: the first tick boundary >= d
SleepTicks(r) == (SleepMs(r) + TickMs - 1) \div TickMs

\* first elapsed time whose refill fills a bucket of capacity b; with rate 0
\* no elapsed time adds a token and the difference need not be kept
ElapsedCap(r, b) ==
  IF r = 0 THEN 0 ELSE (b * 1000 + TickMs * r - 1) \div (TickMs * r)

\* ---- construction ----

\* mutant of NewRateLimiter: the bucket starts empty
NewRateLimiterEmpty(r, b) ==
  /\ rate = r
  /\ burst = b
  /\ tokens = 0
  /\ sinceUpdate = 0
  /\ mu = 0

\* main.go:20-27 NewRateLimiter, called from main (main.go:74)
NewRateLimiter(r, b) ==
  /\ rate = r
  /\ burst = b
  /\ tokens = b
  /\ sinceUpdate = 0
  /\ mu = 0

\* main.go:74-101  main builds the limiter from the flags, fills the request
\* channel and starts the workers
Start(r, b) ==
  /\ NewRateLimiter(r, b)
  /\ requests = MaxRequests
  /\ pc = [p \in Procs |-> "idle"]
  /\ mode = [p \in Procs |-> "wait"]
  /\ elapsedL = [p \in Procs |-> 0]
  /\ preL = [p \in Procs |-> 0]
  /\ ret = [p \in Procs |-> "none"]
  /\ sleepLeft = [p \in Procs |-> 0]
  /\ waitOK = [p \in Procs |-> 0]
  /\ slept = [p \in Procs |-> FALSE]
  /\ clock = 0
  /\ admitted = 0
  /\ credited = 0
  /\ busy = TRUE
  /\ called = FALSE
  /\ run = [avail |-> burst, adm |-> 0, denied |-> FALSE]

\* a RateLimiter as the factory or the caller of NewHTTPRateLimiter makes
\* it: a bucket holding its burst (main.go:20-27), seen through Allow alone
NewInstance == [tokens |-> InstanceBurst]

\* a goroutine that serves no request yet
NoRequest ==
  [kind |-> "none", client |-> "none", key |-> "none", fact |-> "none",
   first |-> FALSE,
   cand |-> Nil, lim |-> Nil, calls |-> 0, allowed |-> FALSE,
   next |-> FALSE, err |-> FALSE, status |-> 0, panicked |-> FALSE]

\* NewHTTPRateLimiter(limiter, opts) and NewPerKeyHTTPRateLimiter(factory,
\* opts): one limiter exists, the sync.Map is empty
NewMiddleware ==
  /\ limiters = [k \in {} |-> Nil]
  /\ heap = <<NewInstance>>
  /\ hpc = [p \in Procs |-> "idle"]
  /\ req = [p \in Procs |-> NoRequest]
  /\ served = 0

RECURSIVE GCD(_, _)
\* greatest common divisor of two naturals
GCD(a, b) == IF b = 0 THEN a ELSE GCD(b, a % b)

\* float64(n) / float64(d) for d > 0, kept exact as a fraction in lowest
\* terms <<numerator, denominator>>
Quotient(n, d) == <<n \div GCD(n, d), d \div GCD(n, d)>>

\* no snapshot returned yet
NoSnapshot ==
  [taken |-> FALSE, TotalRequests |-> 0, AllowedRequests |-> 0,
   DeniedRequests |-> 0, StartTime |-> ZeroTime,
   LastRequestTime |-> ZeroTime, Duration |-> 0,
   Rate |-> Quotient(0, 1), AcceptanceRatio |-> Quotient(0, 1)]

\* no call of RateLimiterWithStats made yet
NoDecorated ==
  [op |-> "none", active |-> FALSE, inner |-> FALSE, innerCalls |-> 0,
   allowedEv |-> 0, deniedEv |-> 0, ret |-> "none"]

\* NewStats(): &Stats{StartTime: time.Now()}
NewStats ==
  /\ stats = [TotalRequests |-> 0, AllowedRequests |-> 0,
              DeniedRequests |-> 0, StartTime |-> 1,
              LastRequestTime |-> ZeroTime]
  /\ smu = [w |-> 0, r |-> {}]
  /\ spc = [p \in Procs |-> "idle"]
  /\ snap = [p \in Procs |-> NoSnapshot]
  /\ snow = 1
  /\ sops = 0
  /\ sreg = [p \in Procs |-> 0]
  /\ scount = [allowed |-> 0, denied |-> 0]
  /\ wrapped = InstanceBurst
  /\ dec = [p \in Procs |-> NoDecorated]

\* NewHTTPRateLimiter (http_test.go:426-430) sets no limiters map: it is
\* nil, which reads as the empty map; no request served by key yet
NoKeyed ==
  /\ kfunc = "ByIP"
  /\ klog = <<>>
  /\ hlimiters = [k \in {} |-> Nil]

\* package config before anything is allocated: NewConfigSet() has
\* configs: make(map[string]*Config)
NoConfigs ==
  /\ cobjs = <<>>
  /\ cheap = <<>>
  /\ cset = <<>>
  /\ clog = <<>>

\* a limiter within its documented preconditions: rate > 0, burst > 0
Init ==
  /\ \E r \in Rates, b \in Bursts : Start(r, b)
  /\ NewMiddleware
  /\ NewStats
  /\ NoKeyed
  /\ NoConfigs

\* the limiter as main builds it from any flag values
MainInit ==
  /\ \E r \in FlagRates, b \in FlagBursts : Start(r, b)
  /\ NewMiddleware
  /\ NewStats
  /\ NoKeyed
  /\ NoConfigs

\* the middleware of package middleware in front of its own limiters
HttpInit ==
  /\ Start(1, 1)
  /\ NewMiddleware
  /\ NewStats
  /\ NoKeyed
  /\ NoConfigs

\* a Stats value of package stats used by concurrent goroutines
StatsInit ==
  /\ Start(1, 1)
  /\ NewMiddleware
  /\ NewStats
  /\ NoKeyed
  /\ NoConfigs

config == <<rate, burst>>
locals == <<elapsedL, preL>>
hist == <<slept, clock, admitted, credited, busy, called, run>>

\* ---- callers ----

\* main.go:95-96  for reqID := range requestChan { rl.Wait() ...
WorkerTake(p) ==
  /\ pc[p] = "idle"
  /\ requests > 0
  /\ requests' = requests - 1
  /\ mode' = [mode EXCEPT ![p] = "wait"]
  /\ ret' = [ret EXCEPT ![p] = "none"]
  /\ waitOK' = [waitOK EXCEPT ![p] = 0]
  /\ slept' = [slept EXCEPT ![p] = FALSE]
  /\ pc' = [pc EXCEPT ![p] = "lock"]
  /\ UNCHANGED others
  /\ UNCHANGED <<config, tokens, sinceUpdate, mu, locals, sleepLeft, clock,
                 admitted, credited, busy, called, run>>

\* main.go:94-95  the channel is closed and drained: the worker ends
WorkerExit(p) ==
  /\ pc[p] = "idle"
  /\ requests = 0
  /\ pc' = [pc EXCEPT ![p] = "done"]
  /\ UNCHANGED others
  /\ UNCHANGED <<config, tokens, sinceUpdate, mu, requests, mode, locals, ret,
                 sleepLeft, waitOK, hist>>

\* a caller that asks once: `if !rl.limiter.Allow()` of the HTTP middleware
Request(p) ==
  /\ pc[p] = "idle"
  /\ requests > 0
  /\ requests' = requests - 1
  /\ mode' = [mode EXCEPT ![p] = "allow"]
  /\ ret' = [ret EXCEPT ![p] = "none"]
  /\ waitOK' = [waitOK EXCEPT ![p] = 0]
  /\ slept' = [slept EXCEPT ![p] = FALSE]
  /\ pc' = [pc EXCEPT ![p] = "lock"]
  /\ UNCHANGED others
  /\ UNCHANGED <<config, tokens, sinceUpdate, mu, locals, sleepLeft, clock,
                 admitted, credited, busy, called, run>>

\* ---- RateLimiter.Allow, main.go:30-49 ----

\* mutant of CanLock: no mutual exclusion
CanLockUnguarded(p) == TRUE

\* main.go:31  rl.mu.Lock() returns only when the mutex is free
CanLock(p) == mu = 0

AllowLock(p) ==
  /\ pc[p] = "lock"
  /\ CanLock(p)
  /\ mu' = p
  /\ pc' = [pc EXCEPT ![p] = "now"]
  /\ UNCHANGED others
  /\ UNCHANGED <<config, tokens, sinceUpdate, requests, mode, locals, ret,
                 sleepLeft, waitOK, hist>>

\* main.go:35-37  now := time.Now(); elapsed := now.Sub(rl.lastUpdate);
\*                rl.lastUpdate = now
AllowNow(p) ==
  /\ pc[p] = "now"
  /\ elapsedL' = [elapsedL EXCEPT ![p] = sinceUpdate]
  /\ preL' = [preL EXCEPT ![p] = tokens]
  /\ sinceUpdate' = 0
  /\ called' = TRUE
  /\ pc' = [pc EXCEPT ![p] = "add"]
  /\ UNCHANGED others
  /\ UNCHANGED <<config, tokens, mu, requests, mode, ret, sleepLeft, waitOK,
                 slept, clock, admitted, credited, busy, run>>

\* mutant of Refilled: the refill is not capped at burst
RefilledUncapped(t, e) == t + tokensToAdd(e, rate)

\* main.go:41  rl.tokens = min(rl.tokens+tokensToAdd, rl.burst)
Refilled(t, e) == min(t + tokensToAdd(e, rate), burst)

\* main.go:40-41
AllowRefill(p) ==
  /\ pc[p] = "add"
  /\ tokens' = Refilled(tokens, elapsedL[p])
  /\ credited' = IF clock < MaxTime
                   THEN credited + tokensToAdd(elapsedL[p], rate)
                   ELSE credited
  /\ pc' = [pc EXCEPT ![p] = "check"]
  /\ UNCHANGED others
  /\ UNCHANGED <<config, sinceUpdate, mu, requests, mode, locals, ret,
                 sleepLeft, waitOK, slept, clock, admitted, busy, called, run>>

\* mutant of HasToken: off by one
HasTokenOrZero(t) == t >= 0

\* main.go:44  if rl.tokens > 0
HasToken(t) == t > 0

\* history of a call of p that found `avail` tokens after its refill and
\* returns res: a call that saw time elapse starts a new run of calls
Record(p, res, avail) ==
  /\ admitted' = IF res THEN admitted + 1 ELSE admitted
  /\ run' = IF elapsedL[p] = 0
              THEN [run EXCEPT !.adm = IF res THEN @ + 1 ELSE @,
                               !.denied = @ \/ ~res]
              ELSE [avail |-> avail, adm |-> IF res THEN 1 ELSE 0,
                    denied |-> ~res]

\* main.go:32 the deferred rl.mu.Unlock(), and main.go:53-57 the loop of Wait
\* around the call: `for !rl.Allow() { time.Sleep(...) }`.  With rl.rate = 0
\* the integer division 1000/rl.rate of line 55 is a run-time panic, which
\* nothing recovers: the process ends and with it every goroutine.
Return(p, res) ==
  /\ mu' = 0
  /\ ret' = [ret EXCEPT ![p] = IF res THEN "true" ELSE "false"]
  /\ elapsedL' = [elapsedL EXCEPT ![p] = 0]
  /\ preL' = [preL EXCEPT ![p] = 0]
  /\ IF mode[p] = "allow"
       THEN /\ pc' = [pc EXCEPT ![p] = "idle"]
            /\ UNCHANGED <<sleepLeft, waitOK>>
       ELSE IF res
         THEN /\ pc' = [pc EXCEPT ![p] = "process"]
              /\ waitOK' = [waitOK EXCEPT ![p] = @ + 1]
              /\ UNCHANGED sleepLeft
         ELSE IF rate = 0
           THEN /\ pc' = [q \in Procs |-> "panic"]
                /\ UNCHANGED <<sleepLeft, waitOK>>
           ELSE /\ pc' = [pc EXCEPT ![p] = "sleep"]
                /\ sleepLeft' = [sleepLeft EXCEPT ![p] = SleepTicks(rate)]
                /\ UNCHANGED waitOK

\* main.go:44, 48  no token: return false
AllowDeny(p) ==
  /\ pc[p] = "check"
  /\ ~HasToken(tokens)
  /\ Return(p, FALSE)
  /\ Record(p, FALSE, tokens)
  /\ UNCHANGED others
  /\ UNCHANGED <<config, tokens, sinceUpdate, requests, mode, slept, clock,
                 credited, busy, called>>

\* main.go:44  a token is there: go on to take it
AllowCheck(p) ==
  /\ pc[p] = "check"
  /\ HasToken(tokens)
  /\ pc' = [pc EXCEPT ![p] = "dec"]
  /\ UNCHANGED others
  /\ UNCHANGED <<config, tokens, sinceUpdate, mu, requests, mode, locals, ret,
                 sleepLeft, waitOK, hist>>

\* main.go:45-46  rl.tokens--; return true
AllowTake(p) ==
  /\ pc[p] = "dec"
  /\ tokens' = tokens - 1
  /\ Return(p, TRUE)
  /\ Record(p, TRUE, tokens)
  /\ UNCHANGED others
  /\ UNCHANGED <<config, sinceUpdate, requests, mode, slept, clock, credited,
                 busy, called>>

\* ---- RateLimiter.Wait and the worker, main.go:52-57, 95-99 ----

\* mutant of Slept: the loop retries without sleeping
SleptAlways(p) == TRUE

\* main.go:55  time.Sleep returns once the duration has passed
Slept(p) == sleepLeft[p] = 0

\* main.go:55, 53  time.Sleep has returned: call Allow again
WaitRetry(p) ==
  /\ pc[p] = "sleep"
  /\ Slept(p)
  /\ pc' = [pc EXCEPT ![p] = "lock"]
  /\ ret' = [ret EXCEPT ![p] = "none"]
  /\ slept' = [slept EXCEPT ![p] = TRUE]
  /\ UNCHANGED others
  /\ UNCHANGED <<config, tokens, sinceUpdate, mu, requests, mode, locals,
                 sleepLeft, waitOK, clock, admitted, credited, busy, called,
                 run>>

\* main.go:97-99  Wait has returned: print, and back to the channel
Process(p) ==
  /\ pc[p] = "process"
  /\ pc' = [pc EXCEPT ![p] = "idle"]
  /\ UNCHANGED others
  /\ UNCHANGED <<config, tokens, sinceUpdate, mu, requests, mode, locals, ret,
                 sleepLeft, waitOK, hist>>

\* ---- time ----

\* the wall clock advances by one tick
Tick ==
  /\ sinceUpdate' = min(sinceUpdate + 1, ElapsedCap(rate, burst))
  /\ sleepLeft' = [p \in Procs |-> IF sleepLeft[p] > 0 THEN sleepLeft[p] - 1 ELSE 0]
  /\ clock' = min(clock + 1, MaxTime)
  /\ busy' = (busy /\ called /\ tokens = 0 /\ mu = 0)
  /\ called' = FALSE
  /\ UNCHANGED others
  /\ UNCHANGED <<config, tokens, mu, requests, pc, mode, locals, ret, waitOK,
                 slept, admitted, credited, run>>

Next ==
  \/ \E p \in Procs : WorkerTake(p)
  \/ \E p \in Procs : WorkerExit(p)
  \/ \E p \in Procs : Request(p)
  \/ \E p \in Procs : AllowLock(p)
  \/ \E p \in Procs : AllowNow(p)
  \/ \E p \in Procs : AllowRefill(p)
  \/ \E p \in Procs : AllowDeny(p)
  \/ \E p \in Procs : AllowCheck(p)
  \/ \E p \in Procs : AllowTake(p)
  \/ \E p \in Procs : WaitRetry(p)
  \/ \E p \in Procs : Process(p)
  \/ Tick

Spec == Init /\ [][Next]_vars

\* The program main: every goroutine is a worker that calls rl.Wait().
MainNext ==
  \/ \E p \in Procs : WorkerTake(p)
  \/ \E p \in Procs : WorkerExit(p)
  \/ \E p \in Procs : AllowLock(p)
  \/ \E p \in Procs : AllowNow(p)
  \/ \E p \in Procs : AllowRefill(p)
  \/ \E p \in Procs : AllowDeny(p)
  \/ \E p \in Procs : AllowCheck(p)
  \/ \E p \in Procs : AllowTake(p)
  \/ \E p \in Procs : WaitRetry(p)
  \/ \E p \in Procs : Process(p)
  \/ Tick

\* main started with any flag values
MainSpec == MainInit /\ [][MainNext]_vars

\* one step of goroutine p other than acquiring the mutex
Step(p) ==
  \/ WorkerTake(p) \/ WorkerExit(p) \/ AllowNow(p) \/ AllowRefill(p)
  \/ AllowDeny(p) \/ AllowCheck(p) \/ AllowTake(p) \/ WaitRetry(p)
  \/ Process(p)

\* Fair scheduling and advancing time: the clock keeps advancing, every
\* goroutine that can run eventually runs, and a goroutine blocked in
\* rl.mu.Lock() gets the mutex if it is free again and again (sync.Mutex
\* hands the lock to a starving waiter).
FairSpec ==
  /\ Init
  /\ [][MainNext]_vars
  /\ WF_vars(Tick)
  /\ \A p \in Procs : WF_vars(Step(p)) /\ SF_vars(AllowLock(p))

\* ------------------------------------------------------------------------
\* Package middleware: HTTPRateLimiter and PerKeyHTTPRateLimiter
\* (the implementation is the second half of sub/middleware/http_test.go)
\* ------------------------------------------------------------------------

\* a request arrives at goroutine p
Arrives(p) ==
  /\ hpc[p] = "idle"
  /\ served < MaxHttpRequests
  /\ served' = served + 1

\* the request of p ends in a panic, which unwinds its goroutine only
Panics(p, r) ==
  /\ req' = [req EXCEPT ![p] = [r EXCEPT !.panicked = TRUE]]
  /\ hpc' = [hpc EXCEPT ![p] = "idle"]

\* mutant of InjectedLimiter: the limiter stored for the key of the
\* request is used when there is one
LimiterByKey(k) == IF k \in DOMAIN limiters THEN limiters[k] ELSE HttpLimiter

\* http_test.go:447  rl.limiter, the limiter given to NewHTTPRateLimiter,
\* for a request whose key would be k
InjectedLimiter(k) == HttpLimiter

\* http_test.go:445-447  HTTPRateLimiter.Middleware (and MiddlewareFunc,
\* 456-458): the handler is entered for a request of client k and is about
\* to call rl.limiter.Allow(); rl.keyFunc is not called
HTTPServe(p) ==
  /\ Arrives(p)
  /\ \E k \in Keys :
       req' = [req EXCEPT ![p] =
                 [NoRequest EXCEPT !.kind = "http", !.client = k,
                                   !.lim = InjectedLimiter(k)]]
  /\ hpc' = [hpc EXCEPT ![p] = "allow"]
  /\ UNCHANGED <<configVars, keyVars>>
  /\ UNCHANGED <<limiterVars, statsVars, limiters, heap>>

\* http_test.go:500-503  PerKeyHTTPRateLimiter.Middleware (and MiddlewareFunc,
\* 517-520): key := rl.keyFunc(r), then the argument rl.limiterFactory() of
\* LoadOrStore is evaluated, before LoadOrStore is entered
PerKeyServe(p, k, f) ==
  /\ Arrives(p)
  /\ LET r == [NoRequest EXCEPT !.kind = "perkey", !.client = k, !.key = k,
                                !.fact = f,
                                !.first = (k \notin DOMAIN limiters)]
     IN CASE f = "panic" ->
               /\ Panics(p, r)
               /\ UNCHANGED heap
          [] f = "nil" ->
               /\ req' = [req EXCEPT ![p] = r]
               /\ hpc' = [hpc EXCEPT ![p] = "store"]
               /\ UNCHANGED heap
          [] f = "ok" ->
               /\ heap' = Append(heap, NewInstance)
               /\ req' = [req EXCEPT ![p] = [r EXCEPT !.cand = Len(heap) + 1]]
               /\ hpc' = [hpc EXCEPT ![p] = "store"]
  /\ UNCHANGED <<configVars, keyVars>>
  /\ UNCHANGED <<limiterVars, statsVars, limiters>>

\* mutant of Stored: Store instead of LoadOrStore
StoredOverwrite(m, k, c) ==
  [x \in DOMAIN m \cup {k} |-> IF x = k THEN c ELSE m[x]]

\* sync.Map.LoadOrStore(k, c), the map afterwards: c is stored only if the
\* key is absent
Stored(m, k, c) ==
  [x \in DOMAIN m \cup {k} |-> IF x \in DOMAIN m THEN m[x] ELSE c]

\* mutant of Actual: the caller goes on with its own candidate
ActualCandidate(m, k, c) == c

\* sync.Map.LoadOrStore(k, c), the value returned: the existing value if the
\* key is present, else c
Actual(m, k, c) == IF k \in DOMAIN m THEN m[k] ELSE c

\* http_test.go:503  limiterInterface, _ := rl.limiters.LoadOrStore(key, ...)
PerKeyLoadOrStore(p) ==
  /\ hpc[p] = "store"
  /\ limiters' = Stored(limiters, req[p].key, req[p].cand)
  /\ req' = [req EXCEPT ![p].lim = Actual(limiters, req[p].key, req[p].cand)]
  /\ hpc' = [hpc EXCEPT ![p] = "allow"]
  /\ UNCHANGED <<configVars, keyVars>>
  /\ UNCHANGED <<limiterVars, statsVars, heap, served>>

\* mutant of AllowOn: the instances draw on one common bucket
AllowOnShared(h, i) ==
  [j \in DOMAIN h |-> [tokens |-> IF h[j].tokens > 0 THEN h[j].tokens - 1 ELSE 0]]

\* limiter.Allow() on instance i, the heap afterwards: a token is taken if
\* there is one (main.go:44-46)
AllowOn(h, i) ==
  [h EXCEPT ![i] = [tokens |-> IF h[i].tokens > 0 THEN h[i].tokens - 1 ELSE 0]]

\* http_test.go:504-506 (and 447)  limiter := limiterInterface.(RateLimiter),
\* which panics on a nil interface value; then limiter.Allow()
CallAllow(p) ==
  /\ hpc[p] = "allow"
  /\ IF req[p].lim = Nil
       THEN /\ Panics(p, req[p])
            /\ UNCHANGED heap
       ELSE /\ heap' = AllowOn(heap, req[p].lim)
            /\ req' = [req EXCEPT ![p].calls = @ + 1,
                                  ![p].allowed = heap[req[p].lim].tokens > 0]
            /\ hpc' = [hpc EXCEPT ![p] = "respond"]
  /\ UNCHANGED <<configVars, keyVars>>
  /\ UNCHANGED <<limiterVars, statsVars, limiters, served>>

\* mutant of NextRuns: the request is passed on whatever Allow said
NextRunsAlways(allowed) == TRUE

\* http_test.go:447, 506  `if !limiter.Allow() { ...; return }`
NextRuns(allowed) == allowed

\* http_test.go:447-451, 506-510  the error handler (DefaultErrorHandler,
\* http_test.go:420-422: 429) and return, or next.ServeHTTP(w, r)
Respond(p) ==
  /\ hpc[p] = "respond"
  /\ req' = [req EXCEPT ![p] =
               IF NextRuns(req[p].allowed)
                 THEN [@ EXCEPT !.next = TRUE, !.status = StatusOK]
                 ELSE [@ EXCEPT !.err = TRUE, !.status = StatusTooManyRequests]]
  /\ hpc' = [hpc EXCEPT ![p] = "idle"]
  /\ UNCHANGED <<configVars, keyVars>>
  /\ UNCHANGED <<limiterVars, statsVars, limiters, heap, served>>

HttpNext ==
  \/ \E p \in Procs : HTTPServe(p)
  \/ \E p \in Procs, k \in Keys, f \in FactoryOutcomes : PerKeyServe(p, k, f)
  \/ \E p \in Procs : PerKeyLoadOrStore(p)
  \/ \E p \in Procs : CallAllow(p)
  \/ \E p \in Procs : Respond(p)

HttpSpec == HttpInit /\ [][HttpNext]_vars

\* ---- package middleware: key functions ----

\* the values of the request headers and fields the key functions read; a
\* header is the list of its values, empty when the header is absent
ForwardedFor == {<<>>, <<"">>, <<"1.1.1.1">>}
RealIP == {<<>>, <<"2.2.2.2">>}
RemoteAddrs == {"10.0.0.1:1234"}
UserIDs == {<<>>, <<"a">>, <<"a b">>}
APIKeys == {<<>>, <<"c">>, <<"b c">>}
Paths == {"/api"}

\* the requests: *http.Request with its Header, RemoteAddr and URL.Path
HttpRequests ==
  [XForwardedFor : ForwardedFor, XRealIP : RealIP, RemoteAddr : RemoteAddrs,
   XUserID : UserIDs, XAPIKey : APIKeys, Path : Paths]

\* the key functions a PerKeyHTTPRateLimiter is given in Options
KeyFuncNames == {"ByIP", "ByUserID", "ByAPIKey", "ByPath", "Combination"}

\* net/http Header.Get: the first value of the header, "" if there is none
HeaderGet(values) == IF values = <<>> THEN "" ELSE values[1]

\* mutant of DefaultKeyFunc: X-Real-IP is looked at first
DefaultKeyFuncRealIPFirst(r) ==
  IF HeaderGet(r.XRealIP) # "" THEN HeaderGet(r.XRealIP)
  ELSE IF HeaderGet(r.XForwardedFor) # "" THEN HeaderGet(r.XForwardedFor)
  ELSE r.RemoteAddr

\* http_test.go:407-417  DefaultKeyFunc
DefaultKeyFunc(r) ==
  IF HeaderGet(r.XForwardedFor) # "" THEN HeaderGet(r.XForwardedFor)
  ELSE IF HeaderGet(r.XRealIP) # "" THEN HeaderGet(r.XRealIP)
  ELSE r.RemoteAddr

\* http_test.go:558-565  KeyFuncs.ByUserID("X-User-ID")
ByUserID(r) ==
  IF HeaderGet(r.XUserID) # "" THEN HeaderGet(r.XUserID) ELSE "anonymous"

\* http_test.go:567-574  KeyFuncs.ByAPIKey("X-API-Key")
ByAPIKey(r) ==
  IF HeaderGet(r.XAPIKey) # "" THEN HeaderGet(r.XAPIKey) ELSE "no-api-key"

\* http_test.go:576-578  KeyFuncs.ByPath
ByPath(r) == r.Path

RECURSIVE Joined(_)
\* fmt, verb %v on a []string: the elements with a space between them
Joined(keys) ==
  IF keys = <<>> THEN ""
  ELSE IF Len(keys) = 1 THEN keys[1]
  ELSE keys[1] \o " " \o Joined(Tail(keys))

\* fmt.Sprintf("%v", keys) for a []string: "[" elements "]"
Sprintf(keys) == "[" \o Joined(keys) \o "]"

\* http_test.go:582-585  the keys of the component functions of
\* KeyFuncs.Combination(ByUserID("X-User-ID"), ByAPIKey("X-API-Key"))
Components(r) == <<ByUserID(r), ByAPIKey(r)>>

\* http_test.go:580-588  KeyFuncs.Combination(...)(r)
Combination(r) == Sprintf(Components(r))

\* http_test.go:500  key := rl.keyFunc(r)
KeyOf(f, r) ==
  CASE f = "ByIP" -> DefaultKeyFunc(r)
    [] f = "ByUserID" -> ByUserID(r)
    [] f = "ByAPIKey" -> ByAPIKey(r)
    [] f = "ByPath" -> ByPath(r)
    [] f = "Combination" -> Combination(r)

\* NewPerKeyHTTPRateLimiter(factory, &Options{KeyFunc: ...}) with any of
\* the key functions (http_test.go:478-495)
KeyFuncInit ==
  /\ Start(1, 1)
  /\ NewMiddleware
  /\ NewStats
  /\ NoConfigs
  /\ kfunc \in KeyFuncNames
  /\ klog = <<>>
  /\ hlimiters = [k \in {} |-> Nil]

\* http_test.go:498-511  PerKeyHTTPRateLimiter.Middleware serves request r
\* from beginning to end: the key, a limiter from the factory, LoadOrStore,
\* Allow on the limiter it returns
ServeKeyed(r) ==
  /\ Len(klog) < MaxKeyed
  /\ LET key == KeyOf(kfunc, r)
         cand == Len(heap) + 1
         made == Append(heap, NewInstance)
         lim == Actual(limiters, key, cand)
     IN /\ limiters' = Stored(limiters, key, cand)
        /\ heap' = AllowOn(made, lim)
        /\ klog' = Append(klog, [r |-> r, key |-> key, lim |-> lim,
                                 allowed |-> made[lim].tokens > 0])
  /\ UNCHANGED <<limiterVars, statsVars, configVars, kfunc, hlimiters>>
  /\ UNCHANGED <<hpc, req, served>>

KeyFuncNext == \E r \in HttpRequests : ServeKeyed(r)

KeyFuncSpec == KeyFuncInit /\ [][KeyFuncNext]_vars

\* ------------------------------------------------------------------------
\* Package stats: Stats (the implementation is at the end of
\* sub/middleware/http_test.go)
\* ------------------------------------------------------------------------

\* goroutine p calls a method of the Stats value or of RateLimiterWithStats
StatsCall(p) ==
  /\ spc[p] = "idle"
  /\ sops < MaxStatsOps
  /\ sops' = sops + 1

\* RecordAllowed or RecordDenied is entered by p: called directly, or by
\* RateLimiterWithStats.Allow / Wait on its way (http_test.go:723-727, 734)
Entered(p, from) ==
  \/ StatsCall(p)
  \/ spc[p] = from /\ UNCHANGED sops

\* mutant of CanLockStats: the writers do not exclude each other
CanLockStatsUnguarded(p) == TRUE

\* s.mu.Lock() returns when there is no writer and no reader
CanLockStats(p) == smu.w = 0 /\ smu.r = {}

\* mutant of CanRLock: the snapshot is read without waiting for the writer
CanRLockUnguarded(p) == TRUE

\* s.mu.RLock() returns when there is no writer
CanRLock(p) == smu.w = 0

\* s.mu.Lock() at the head of RecordAllowed, RecordDenied and Reset
LockStats(p) ==
  /\ CanLockStats(p)
  /\ smu' = [smu EXCEPT !.w = p]
  /\ UNCHANGED <<configVars, keyVars>>
  /\ UNCHANGED <<limiterVars, httpVars, stats, snap, snow, sreg, wrapped, dec>>

\* the method of p goes on to its next statement, still holding the lock
Goes(p, to) ==
  /\ spc' = [spc EXCEPT ![p] = to]
  /\ UNCHANGED <<configVars, keyVars>>
  /\ UNCHANGED <<limiterVars, httpVars, smu, snap, snow, sops, scount,
                 wrapped, dec>>

\* the deferred s.mu.Unlock() as the method of p returns
UnlockStats(p) ==
  /\ smu' = [smu EXCEPT !.w = 0]
  /\ spc' = [spc EXCEPT ![p] = "idle"]
  /\ UNCHANGED <<configVars, keyVars>>
  /\ UNCHANGED <<limiterVars, httpVars, snap, snow, sops, sreg, wrapped>>

\* http_test.go:723-728, 734  the Record call of RateLimiterWithStats.Allow
\* or Wait has returned: the decorator returns, Allow with `allowed`
Observed(d, event) ==
  IF d.active
    THEN [d EXCEPT !.active = FALSE,
                   !.allowedEv = IF event = "allowed" THEN @ + 1 ELSE @,
                   !.deniedEv = IF event = "denied" THEN @ + 1 ELSE @,
                   !.ret = IF d.op = "Wait" THEN "returned"
                           ELSE IF d.inner THEN "true" ELSE "false"]
    ELSE d

\* http_test.go:615-616  RecordAllowed: s.mu.Lock()
RecordAllowedLock(p) ==
  /\ Entered(p, "ws.allowed")
  /\ LockStats(p)
  /\ scount' = [scount EXCEPT !.allowed = @ + 1]
  /\ spc' = [spc EXCEPT ![p] = "ra.total"]

\* http_test.go:619  s.TotalRequests++, the load
RecordAllowedTotalLoad(p) ==
  /\ spc[p] = "ra.total"
  /\ sreg' = [sreg EXCEPT ![p] = stats.TotalRequests]
  /\ UNCHANGED stats
  /\ Goes(p, "ra.total.st")

\* http_test.go:619  s.TotalRequests++, the store
RecordAllowedTotal(p) ==
  /\ spc[p] = "ra.total.st"
  /\ stats' = [stats EXCEPT !.TotalRequests = sreg[p] + 1]
  /\ sreg' = [sreg EXCEPT ![p] = 0]
  /\ Goes(p, "ra.allowed")

\* http_test.go:620  s.AllowedRequests++, the load
RecordAllowedAllowedLoad(p) ==
  /\ spc[p] = "ra.allowed"
  /\ sreg' = [sreg EXCEPT ![p] = stats.AllowedRequests]
  /\ UNCHANGED stats
  /\ Goes(p, "ra.allowed.st")

\* http_test.go:620  s.AllowedRequests++, the store
RecordAllowedAllowed(p) ==
  /\ spc[p] = "ra.allowed.st"
  /\ stats' = [stats EXCEPT !.AllowedRequests = sreg[p] + 1]
  /\ sreg' = [sreg EXCEPT ![p] = 0]
  /\ Goes(p, "ra.time")

\* http_test.go:621, 617  s.LastRequestTime = time.Now(); Unlock
RecordAllowedTime(p) ==
  /\ spc[p] = "ra.time"
  /\ stats' = [stats EXCEPT !.LastRequestTime = snow]
  /\ dec' = [dec EXCEPT ![p] = Observed(@, "allowed")]
  /\ UNCHANGED scount
  /\ UnlockStats(p)

\* http_test.go:625-626  RecordDenied: s.mu.Lock()
RecordDeniedLock(p) ==
  /\ Entered(p, "ws.denied")
  /\ LockStats(p)
  /\ scount' = [scount EXCEPT !.denied = @ + 1]
  /\ spc' = [spc EXCEPT ![p] = "rd.total"]

\* http_test.go:629  s.TotalRequests++, the load
RecordDeniedTotalLoad(p) ==
  /\ spc[p] = "rd.total"
  /\ sreg' = [sreg EXCEPT ![p] = stats.TotalRequests]
  /\ UNCHANGED stats
  /\ Goes(p, "rd.total.st")

\* http_test.go:629  s.TotalRequests++, the store
RecordDeniedTotal(p) ==
  /\ spc[p] = "rd.total.st"
  /\ stats' = [stats EXCEPT !.TotalRequests = sreg[p] + 1]
  /\ sreg' = [sreg EXCEPT ![p] = 0]
  /\ Goes(p, "rd.denied")

\* http_test.go:630  s.DeniedRequests++, the load
RecordDeniedDeniedLoad(p) ==
  /\ spc[p] = "rd.denied"
  /\ sreg' = [sreg EXCEPT ![p] = stats.DeniedRequests]
  /\ UNCHANGED stats
  /\ Goes(p, "rd.denied.st")

\* http_test.go:630  s.DeniedRequests++, the store
RecordDeniedDenied(p) ==
  /\ spc[p] = "rd.denied.st"
  /\ stats' = [stats EXCEPT !.DeniedRequests = sreg[p] + 1]
  /\ sreg' = [sreg EXCEPT ![p] = 0]
  /\ Goes(p, "rd.time")

\* http_test.go:631, 627  s.LastRequestTime = time.Now(); Unlock
RecordDeniedTime(p) ==
  /\ spc[p] = "rd.time"
  /\ stats' = [stats EXCEPT !.LastRequestTime = snow]
  /\ dec' = [dec EXCEPT ![p] = Observed(@, "denied")]
  /\ UNCHANGED scount
  /\ UnlockStats(p)

\* http_test.go:662-663  Reset: s.mu.Lock()
ResetLock(p) ==
  /\ StatsCall(p)
  /\ LockStats(p)
  /\ UNCHANGED scount
  /\ spc' = [spc EXCEPT ![p] = "rs.counters"]

\* http_test.go:666-668  the three counters are set to 0
ResetCounters(p) ==
  /\ spc[p] = "rs.counters"
  /\ stats' = [stats EXCEPT !.TotalRequests = 0, !.AllowedRequests = 0,
                            !.DeniedRequests = 0]
  /\ scount' = [allowed |-> 0, denied |-> 0]
  /\ spc' = [spc EXCEPT ![p] = "rs.times"]
  /\ UNCHANGED <<configVars, keyVars>>
  /\ UNCHANGED <<limiterVars, httpVars, smu, snap, snow, sops, sreg,
                 wrapped, dec>>

\* mutant of Restarted: the time of the last request survives
RestartedKeepLast(s, now) == [s EXCEPT !.StartTime = now]

\* http_test.go:669-670  s.StartTime = time.Now();
\* s.LastRequestTime = time.Time{}
Restarted(s, now) ==
  [s EXCEPT !.StartTime = now, !.LastRequestTime = ZeroTime]

\* http_test.go:669-670, 664  the two times are set; Unlock
ResetTimes(p) ==
  /\ spc[p] = "rs.times"
  /\ stats' = Restarted(stats, snow)
  /\ UNCHANGED <<scount, dec>>
  /\ UnlockStats(p)

\* http_test.go:635-636  GetSnapshot: s.mu.RLock()
GetSnapshotRLock(p) ==
  /\ StatsCall(p)
  /\ CanRLock(p)
  /\ smu' = [smu EXCEPT !.r = @ \cup {p}]
  /\ spc' = [spc EXCEPT ![p] = "gs.read"]
  /\ UNCHANGED <<configVars, keyVars>>
  /\ UNCHANGED <<limiterVars, httpVars, stats, snap, snow, sreg, scount,
                 wrapped, dec>>

\* mutant of calculateAcceptanceRatio: the share of the denied requests
calculateDeniedRatio(s) ==
  IF s.TotalRequests = 0 THEN Quotient(0, 1)
  ELSE Quotient(s.DeniedRequests, s.TotalRequests)

\* http_test.go:673-678  0 if TotalRequests == 0, else
\* float64(AllowedRequests) / float64(TotalRequests)
calculateAcceptanceRatio(s) ==
  IF s.TotalRequests = 0 THEN Quotient(0, 1)
  ELSE Quotient(s.AllowedRequests, s.TotalRequests)

\* http_test.go:639-642  duration: LastRequestTime - StartTime if the last
\* request is after the start, else time.Since(StartTime)
SnapshotDuration(s, now) ==
  IF s.LastRequestTime > s.StartTime
    THEN s.LastRequestTime - s.StartTime
    ELSE now - s.StartTime

\* http_test.go:639-658  the StatsSnapshot built from the fields s at time
\* now; rate is AllowedRequests / duration if duration > 0, else 0
Snapshot(s, now) ==
  [taken |-> TRUE,
   TotalRequests |-> s.TotalRequests,
   AllowedRequests |-> s.AllowedRequests,
   DeniedRequests |-> s.DeniedRequests,
   StartTime |-> s.StartTime,
   LastRequestTime |-> s.LastRequestTime,
   Duration |-> SnapshotDuration(s, now),
   Rate |-> IF SnapshotDuration(s, now) > 0
              THEN Quotient(s.AllowedRequests, SnapshotDuration(s, now))
              ELSE Quotient(0, 1),
   AcceptanceRatio |-> calculateAcceptanceRatio(s)]

\* http_test.go:639-658, 637  the fields are read, RUnlock, return
GetSnapshotReturn(p) ==
  /\ spc[p] = "gs.read"
  /\ snap' = [snap EXCEPT ![p] = Snapshot(stats, snow)]
  /\ smu' = [smu EXCEPT !.r = @ \ {p}]
  /\ spc' = [spc EXCEPT ![p] = "idle"]
  /\ UNCHANGED <<configVars, keyVars>>
  /\ UNCHANGED <<limiterVars, httpVars, stats, snow, sops, sreg, scount,
                 wrapped, dec>>

\* mutant of RecordsAllowed: the branches of Allow are exchanged
RecordsAllowedInverted(allowed) == ~allowed

\* http_test.go:723-727  if allowed { RecordAllowed } else { RecordDenied }
RecordsAllowed(allowed) == allowed

\* http_test.go:721-723  RateLimiterWithStats.Allow: allowed :=
\* r.limiter.Allow(), then the branch on it
WithStatsAllow(p) ==
  /\ StatsCall(p)
  /\ wrapped' = IF wrapped > 0 THEN wrapped - 1 ELSE wrapped
  /\ dec' = [dec EXCEPT ![p] =
               [op |-> "Allow", active |-> TRUE, inner |-> wrapped > 0,
                innerCalls |-> 1, allowedEv |-> 0, deniedEv |-> 0,
                ret |-> "none"]]
  /\ spc' = [spc EXCEPT ![p] =
               IF RecordsAllowed(wrapped > 0) THEN "ws.allowed"
               ELSE "ws.denied"]
  /\ UNCHANGED <<configVars, keyVars>>
  /\ UNCHANGED <<limiterVars, httpVars, stats, smu, snap, snow, sreg, scount>>

\* http_test.go:732-734  RateLimiterWithStats.Wait: r.limiter.Wait() has
\* returned, which it does once the wrapped limiter gave a token
WithStatsWait(p) ==
  /\ StatsCall(p)
  /\ wrapped > 0
  /\ wrapped' = wrapped - 1
  /\ dec' = [dec EXCEPT ![p] =
               [op |-> "Wait", active |-> TRUE, inner |-> TRUE,
                innerCalls |-> 1, allowedEv |-> 0, deniedEv |-> 0,
                ret |-> "none"]]
  /\ spc' = [spc EXCEPT ![p] = "ws.allowed"]
  /\ UNCHANGED <<configVars, keyVars>>
  /\ UNCHANGED <<limiterVars, httpVars, stats, smu, snap, snow, sreg, scount>>

\* the wrapped limiter replenishes a token
WrappedRefill ==
  /\ wrapped < InstanceBurst
  /\ wrapped' = wrapped + 1
  /\ UNCHANGED <<configVars, keyVars>>
  /\ UNCHANGED <<limiterVars, httpVars, stats, smu, spc, snap, snow, sops,
                 sreg, scount, dec>>

\* the wall clock of package stats advances
StatsTick ==
  /\ snow < MaxStatsTime
  /\ snow' = snow + 1
  /\ UNCHANGED <<configVars, keyVars>>
  /\ UNCHANGED <<limiterVars, httpVars, stats, smu, spc, snap, sops, sreg,
                 scount, wrapped, dec>>

StatsNext ==
  \/ \E p \in Procs : RecordAllowedLock(p)
  \/ \E p \in Procs : RecordAllowedTotalLoad(p)
  \/ \E p \in Procs : RecordAllowedTotal(p)
  \/ \E p \in Procs : RecordAllowedAllowedLoad(p)
  \/ \E p \in Procs : RecordAllowedAllowed(p)
  \/ \E p \in Procs : RecordAllowedTime(p)
  \/ \E p \in Procs : RecordDeniedLock(p)
  \/ \E p \in Procs : RecordDeniedTotalLoad(p)
  \/ \E p \in Procs : RecordDeniedTotal(p)
  \/ \E p \in Procs : RecordDeniedDeniedLoad(p)
  \/ \E p \in Procs : RecordDeniedDenied(p)
  \/ \E p \in Procs : RecordDeniedTime(p)
  \/ \E p \in Procs : ResetLock(p)
  \/ \E p \in Procs : ResetCounters(p)
  \/ \E p \in Procs : ResetTimes(p)
  \/ \E p \in Procs : GetSnapshotRLock(p)
  \/ \E p \in Procs : GetSnapshotReturn(p)
  \/ \E p \in Procs : WithStatsAllow(p)
  \/ \E p \in Procs : WithStatsWait(p)
  \/ WrappedRefill
  \/ StatsTick

StatsSpec == StatsInit /\ [][StatsNext]_vars

\* ---- package config ----

\* part_001:13-24  the JSON names of the fields of Config
Tags ==
  {"rate", "burst", "window", "name", "enabled", "per_key_limits",
   "error_message", "excluded_paths", "excluded_ips", "custom_headers"}

\* mutant of DefaultConfig: the zero Config, &Config{}
ZeroConfig ==
  [Rate |-> 0, Burst |-> 0, Window |-> 0, Name |-> "", Enabled |-> FALSE,
   PerKeyLimits |-> FALSE, ErrorMessage |-> "", ExcludedPaths |-> Nil,
   ExcludedIPs |-> Nil, CustomHeaders |-> Nil]

\* part_001:27-35  DefaultConfig(); Window in seconds
DefaultConfig ==
  [Rate |-> DefaultRate, Burst |-> DefaultBurst, Window |-> DefaultWindow,
   Name |-> "", Enabled |-> TRUE, PerKeyLimits |-> FALSE,
   ErrorMessage |-> DefaultErrorMessage, ExcludedPaths |-> Nil,
   ExcludedIPs |-> Nil, CustomHeaders |-> Nil]

\* mutant of Validate: a burst equal to the rate is refused
ValidateStrict(c) ==
  IF c.Rate <= 0 THEN "rate must be positive"
  ELSE IF c.Burst <= 0 THEN "burst must be positive"
  ELSE IF c.Burst <= c.Rate
    THEN "burst must be greater than or equal to rate"
  ELSE IF c.Window < 0 THEN "window must be non-negative"
  ELSE ""

\* part_001:38-52  Config.Validate: the message of the error, "" for nil
Validate(c) ==
  IF c.Rate <= 0 THEN "rate must be positive"
  ELSE IF c.Burst <= 0 THEN "burst must be positive"
  ELSE IF c.Burst < c.Rate
    THEN "burst must be greater than or equal to rate"
  ELSE IF c.Window < 0 THEN "window must be non-negative"
  ELSE ""

\* the elements behind a slice or map reference; a nil slice or map has none
Elems(h, r) == IF r = Nil THEN <<>> ELSE h[r]

\* a Config read through its references: what reflect.DeepEqual compares
Deep(c, h) ==
  [Rate |-> c.Rate, Burst |-> c.Burst, Window |-> c.Window,
   Name |-> c.Name, Enabled |-> c.Enabled, PerKeyLimits |-> c.PerKeyLimits,
   ErrorMessage |-> c.ErrorMessage,
   ExcludedPaths |-> [isnil |-> c.ExcludedPaths = Nil,
                      elems |-> Elems(h, c.ExcludedPaths)],
   ExcludedIPs |-> [isnil |-> c.ExcludedIPs = Nil,
                    elems |-> Elems(h, c.ExcludedIPs)],
   CustomHeaders |-> [isnil |-> c.CustomHeaders = Nil,
                      elems |-> Elems(h, c.CustomHeaders)]]

\* the JSON object with no member
NoMembers == [t \in {} |-> 0]

\* encoding/json: the member of tag t with value v
Member(t, v) == [x \in {t} |-> v]

\* encoding/json, `omitempty`: the member is left out when the value is
\* false, 0, "" or a slice or map of length 0 (nil or not)
OmitEmpty(t, v, empty) == IF empty THEN NoMembers ELSE Member(t, v)

\* part_001:93-102, 13-24  SaveToWriter: the JSON document encoder.Encode(c)
\* writes, as its members by tag (the indentation carries no value)
SaveToWriter(c, h) ==
  [ok |-> TRUE,
   members |->
     Member("rate", c.Rate) @@ Member("burst", c.Burst)
     @@ OmitEmpty("window", c.Window, c.Window = 0)
     @@ OmitEmpty("name", c.Name, c.Name = "")
     @@ Member("enabled", c.Enabled)
     @@ OmitEmpty("per_key_limits", c.PerKeyLimits, ~c.PerKeyLimits)
     @@ OmitEmpty("error_message", c.ErrorMessage, c.ErrorMessage = "")
     @@ OmitEmpty("excluded_paths", Elems(h, c.ExcludedPaths),
                  Elems(h, c.ExcludedPaths) = <<>>)
     @@ OmitEmpty("excluded_ips", Elems(h, c.ExcludedIPs),
                  Elems(h, c.ExcludedIPs) = <<>>)
     @@ OmitEmpty("custom_headers", Elems(h, c.CustomHeaders),
                  DOMAIN Elems(h, c.CustomHeaders) = {})]

\* a JSON document with every field of c written out, restricted to the
\* tags ts: an input of LoadFromReader with some members absent
Document(c, h, ts) ==
  [ok |-> TRUE,
   members |->
     [t \in ts |->
        CASE t = "rate" -> c.Rate
          [] t = "burst" -> c.Burst
          [] t = "window" -> c.Window
          [] t = "name" -> c.Name
          [] t = "enabled" -> c.Enabled
          [] t = "per_key_limits" -> c.PerKeyLimits
          [] t = "error_message" -> c.ErrorMessage
          [] t = "excluded_paths" -> Elems(h, c.ExcludedPaths)
          [] t = "excluded_ips" -> Elems(h, c.ExcludedIPs)
          [] t = "custom_headers" -> Elems(h, c.CustomHeaders)]]

\* a document that is not JSON, or holds a value of the wrong type
Malformed == [ok |-> FALSE, members |-> NoMembers]

\* the value of member t of the document, or else the value v
Given(doc, t, v) == IF t \in DOMAIN doc.members THEN doc.members[t] ELSE v

\* decoding member t into a nil slice or map: a new one is allocated when
\* the member is there
Allocated(doc, t, h) ==
  IF t \in DOMAIN doc.members
    THEN [heap |-> Append(h, doc.members[t]), ref |-> Len(h) + 1]
    ELSE [heap |-> h, ref |-> Nil]

\* part_001:69-70  decoder.Decode(config): the members of the document
\* overwrite the fields of the Config cfg, the other fields stay
Decode(cfg, doc, h) ==
  LET paths == Allocated(doc, "excluded_paths", h)
      ips == Allocated(doc, "excluded_ips", paths.heap)
      headers == Allocated(doc, "custom_headers", ips.heap)
  IN [heap |-> headers.heap,
      config |->
        [Rate |-> Given(doc, "rate", cfg.Rate),
         Burst |-> Given(doc, "burst", cfg.Burst),
         Window |-> Given(doc, "window", cfg.Window),
         Name |-> Given(doc, "name", cfg.Name),
         Enabled |-> Given(doc, "enabled", cfg.Enabled),
         PerKeyLimits |-> Given(doc, "per_key_limits", cfg.PerKeyLimits),
         ErrorMessage |-> Given(doc, "error_message", cfg.ErrorMessage),
         ExcludedPaths |-> paths.ref,
         ExcludedIPs |-> ips.ref,
         CustomHeaders |-> headers.ref]]

\* part_001:66-79  LoadFromReader: the error ("" for nil), the Config it
\* returns if any, and the heap after the call
LoadFromReader(doc, h) ==
  LET d == Decode(DefaultConfig, doc, h)
  IN IF ~doc.ok
       THEN [err |-> "failed to decode config", some |-> FALSE,
             config |-> DefaultConfig, heap |-> h]
     ELSE IF Validate(d.config) # ""
       THEN [err |-> "invalid config", some |-> FALSE,
             config |-> d.config, heap |-> d.heap]
     ELSE [err |-> "", some |-> TRUE, config |-> d.config, heap |-> d.heap]

\* make and copy of a slice or map that is not nil (part_001:108-123)
Copied(h, r) ==
  IF r = Nil THEN [heap |-> h, ref |-> Nil]
  ELSE [heap |-> Append(h, h[r]), ref |-> Len(h) + 1]

\* mutant of Clone: clone := *c alone, the map is shared
CloneSharingHeaders(c, h) ==
  LET paths == Copied(h, c.ExcludedPaths)
      ips == Copied(paths.heap, c.ExcludedIPs)
  IN [heap |-> ips.heap,
      config |-> [c EXCEPT !.ExcludedPaths = paths.ref,
                           !.ExcludedIPs = ips.ref]]

\* part_001:105-126  Config.Clone: clone := *c, then the two slices and the
\* map are copied if they are not nil
Clone(c, h) ==
  LET paths == Copied(h, c.ExcludedPaths)
      ips == Copied(paths.heap, c.ExcludedIPs)
      headers == Copied(ips.heap, c.CustomHeaders)
  IN [heap |-> headers.heap,
      config |-> [c EXCEPT !.ExcludedPaths = paths.ref,
                           !.ExcludedIPs = ips.ref,
                           !.CustomHeaders = headers.ref]]

\* the values a Config under test is made of
CfgInts == -1 .. MaxCfg
Windows == {-1, 0, DefaultWindow, 2}
CfgNames == {"", "api"}
Messages == {"", DefaultErrorMessage, "slow down"}
PathLists == {<<>>, <<"/health">>}
IPLists == {<<"10.0.0.1">>}
HeaderMaps == {NoMembers, Member("Retry-After", "5")}

\* the sets of members present in the documents given to LoadFromReader
TagSets ==
  {{}, {"rate", "burst"}, {"rate", "burst", "enabled", "custom_headers"},
   Tags \ {"window", "error_message"}, Tags}

\* a slice or map literal of a Config literal: nil, or a new object
Placed(h, isnil, elems) ==
  IF isnil THEN [heap |-> h, ref |-> Nil]
  ELSE [heap |-> Append(h, elems), ref |-> Len(h) + 1]

\* no call made yet
NoCall ==
  [op |-> "none", ptr |-> Nil, name |-> "", doc |-> Malformed, err |-> "",
   out |-> Nil, exists |-> FALSE, names |-> <<>>,
   was |-> Deep(ZeroConfig, <<>>), got |-> Deep(ZeroConfig, <<>>),
   touched |-> "none"]

\* one Config, &Config{...} with any field values, valid or not
ConfigInit ==
  /\ Start(1, 1)
  /\ NewMiddleware
  /\ NewStats
  /\ NoKeyed
  /\ \E r \in CfgInts, b \in CfgInts, w \in Windows, n \in CfgNames,
        e \in BOOLEAN, k \in BOOLEAN, m \in Messages,
        pnil \in BOOLEAN, ps \in PathLists,
        inil \in BOOLEAN, is \in IPLists,
        hnil \in BOOLEAN, hs \in HeaderMaps :
       LET paths == Placed(<<>>, pnil, ps)
           ips == Placed(paths.heap, inil, is)
           headers == Placed(ips.heap, hnil, hs)
       IN /\ (pnil => ps = <<>>) /\ (hnil => hs = NoMembers)
          /\ cobjs = <<[Rate |-> r, Burst |-> b, Window |-> w, Name |-> n,
                        Enabled |-> e, PerKeyLimits |-> k,
                        ErrorMessage |-> m, ExcludedPaths |-> paths.ref,
                        ExcludedIPs |-> ips.ref,
                        CustomHeaders |-> headers.ref]>>
          /\ cheap = headers.heap
  /\ cset = <<>>
  /\ clog = <<>>

\* the Config the calls are made on, and the last call made
Subject == 1
LastCall == clog[Len(clog)]

\* part_001:38-52  c.Validate() is called
CallValidate ==
  /\ clog = <<>>
  /\ clog' = <<[NoCall EXCEPT !.op = "Validate", !.ptr = Subject,
                              !.err = Validate(cobjs[Subject]),
                              !.was = Deep(cobjs[Subject], cheap)]>>
  /\ UNCHANGED <<limiterVars, httpVars, statsVars, keyVars, cobjs, cheap, cset>>

\* the Config a call returned is allocated, if it returned one
Returned(some, cfg) == IF some THEN Append(cobjs, cfg) ELSE cobjs

\* part_001:66-79  LoadFromReader(r) is called on a document
Loads(op, doc) ==
  LET l == LoadFromReader(doc, cheap)
  IN /\ cobjs' = Returned(l.some, l.config)
     /\ cheap' = l.heap
     /\ clog' = <<[NoCall EXCEPT !.op = op, !.ptr = Subject, !.doc = doc,
                                 !.err = l.err,
                                 !.out = IF l.some THEN Len(cobjs) + 1
                                         ELSE Nil,
                                 !.was = Deep(cobjs[Subject], cheap)]>>

\* part_001:93-102, 66-79  c.SaveToWriter(&buf), then LoadFromReader(&buf)
CallSaveLoad ==
  /\ clog = <<>>
  /\ Loads("SaveLoad", SaveToWriter(cobjs[Subject], cheap))
  /\ UNCHANGED <<limiterVars, httpVars, statsVars, keyVars, cset>>

\* part_001:66-79  LoadFromReader on a document with the members ts
CallLoad(ts) ==
  /\ clog = <<>>
  /\ Loads("Load", Document(cobjs[Subject], cheap, ts))
  /\ UNCHANGED <<limiterVars, httpVars, statsVars, keyVars, cset>>

\* part_001:66-72  LoadFromReader on a document the decoder refuses
CallLoadMalformed ==
  /\ clog = <<>>
  /\ Loads("Load", Malformed)
  /\ UNCHANGED <<limiterVars, httpVars, statsVars, keyVars, cset>>

\* the copy c.Clone() returns is allocated and the call is logged
Clones(op) ==
  LET c == Clone(cobjs[Subject], cheap)
  IN /\ cobjs' = Append(cobjs, c.config)
     /\ cheap' = c.heap
     /\ clog' = <<[NoCall EXCEPT !.op = op, !.ptr = Subject,
                                 !.out = Len(cobjs) + 1,
                                 !.was = Deep(cobjs[Subject], cheap),
                                 !.got = Deep(c.config, c.heap)]>>

\* part_001:105-126  c.Clone() is called
CallClone ==
  /\ clog = <<>>
  /\ Clones("Clone")
  /\ UNCHANGED <<limiterVars, httpVars, statsVars, keyVars, cset>>

\* part_001:290-295  Builder.Build() on a builder whose config is valid
CallBuild ==
  /\ clog = <<>>
  /\ Validate(cobjs[Subject]) = ""
  /\ Clones("Build")
  /\ UNCHANGED <<limiterVars, httpVars, statsVars, keyVars, cset>>

\* part_001:291-293  Builder.Build() on a builder whose config is not valid
CallBuildInvalid ==
  /\ clog = <<>>
  /\ Validate(cobjs[Subject]) # ""
  /\ clog' = <<[NoCall EXCEPT !.op = "Build", !.ptr = Subject,
                              !.err = Validate(cobjs[Subject]),
                              !.was = Deep(cobjs[Subject], cheap)]>>
  /\ UNCHANGED <<limiterVars, httpVars, statsVars, keyVars, cobjs, cheap, cset>>

\* the fields of Config that are references
RefFields == {"ExcludedPaths", "ExcludedIPs", "CustomHeaders"}

\* config_test.go:260-275  the caller assigns to an element of a slice or an
\* entry of the map of the clone, or of the original
Modify(side, f) ==
  /\ clog # <<>>
  /\ LastCall.op \in {"Clone", "Build"}
  /\ LastCall.out # Nil
  /\ LastCall.touched = "none"
  /\ LET target == IF side = "clone" THEN LastCall.out ELSE LastCall.ptr
         ref == cobjs[target][f]
     IN /\ ref # Nil
        /\ \E i \in DOMAIN cheap[ref] :
             cheap' = [cheap EXCEPT ![ref][i] = "modified"]
  /\ clog' = <<[LastCall EXCEPT !.touched = side]>>
  /\ UNCHANGED <<limiterVars, httpVars, statsVars, keyVars, cobjs, cset>>

ConfigNext ==
  \/ CallValidate
  \/ CallSaveLoad
  \/ \E ts \in TagSets : CallLoad(ts)
  \/ CallLoadMalformed
  \/ CallClone
  \/ CallBuild
  \/ CallBuildInvalid
  \/ \E side \in {"clone", "original"}, f \in RefFields : Modify(side, f)

ConfigSpec == ConfigInit /\ [][ConfigNext]_vars

\* the names given to the ConfigSet, and the configs given: nil or one of
\* the Config structs
SetNames == {"", "a", "b"}
Pointers == 0 .. Len(cobjs)

\* NewConfigSet() and three Config structs, the second one not valid
ConfigSetInit ==
  /\ Start(1, 1)
  /\ NewMiddleware
  /\ NewStats
  /\ NoKeyed
  /\ cobjs = <<DefaultConfig, [DefaultConfig EXCEPT !.Burst = 0],
                [DefaultConfig EXCEPT !.Name = "api"]>>
  /\ cheap = <<>>
  /\ cset = NoMembers
  /\ clog = <<>>

\* a method of the ConfigSet is called and returns
Logged(call) ==
  /\ Len(clog) < MaxSetOps
  /\ clog' = Append(clog, call)
  /\ UNCHANGED <<limiterVars, httpVars, statsVars, keyVars, cobjs, cheap>>

\* mutant of AddError: Add does not validate the config
AddErrorUnvalidated(name, p) ==
  IF name = "" THEN "config name cannot be empty"
  ELSE IF p = Nil THEN "config cannot be nil"
  ELSE ""

\* part_001:142-150  the error of Add, "" for nil
AddError(name, p) ==
  IF name = "" THEN "config name cannot be empty"
  ELSE IF p = Nil THEN "config cannot be nil"
  ELSE IF Validate(cobjs[p]) # "" THEN "invalid config"
  ELSE ""

\* part_001:141-154  cs.Add(name, config)
Add(name, p) ==
  /\ cset' = IF AddError(name, p) = "" THEN Member(name, p) @@ cset
             ELSE cset
  /\ Logged([NoCall EXCEPT !.op = "Add", !.name = name, !.ptr = p,
                           !.err = AddError(name, p)])

\* part_001:157-160  cs.Get(name): config, exists := cs.configs[name]
Get(name) ==
  /\ UNCHANGED cset
  /\ Logged([NoCall EXCEPT !.op = "Get", !.name = name,
                           !.exists = name \in DOMAIN cset,
                           !.out = IF name \in DOMAIN cset THEN cset[name]
                                   ELSE Nil])

\* part_001:163-165  cs.Remove(name): delete(cs.configs, name)
Remove(name) ==
  /\ cset' = [n \in DOMAIN cset \ {name} |-> cset[n]]
  /\ Logged([NoCall EXCEPT !.op = "Remove", !.name = name])

\* the orders in which `for name := range cs.configs` may give the names
Orders(S) ==
  {s \in [1 .. Cardinality(S) -> S] :
     \A i, j \in DOMAIN s : i # j => s[i] # s[j]}

\* part_001:168-174  cs.Names(): the names in the order of the map iteration
ListNames ==
  /\ UNCHANGED cset
  /\ \E s \in Orders(DOMAIN cset) :
       Logged([NoCall EXCEPT !.op = "Names", !.names = s])

ConfigSetNext ==
  \/ \E name \in SetNames, p \in Pointers : Add(name, p)
  \/ \E name \in SetNames : Get(name)
  \/ \E name \in SetNames : Remove(name)
  \/ ListNames

ConfigSetSpec == ConfigSetInit /\ [][ConfigSetNext]_vars

\* ---- package config: Builder ----

\* part_001:223-227  NewBuilder(): &Builder{config: DefaultConfig()}
BuilderInit ==
  /\ Start(1, 1)
  /\ NewMiddleware
  /\ NewStats
  /\ NoKeyed
  /\ cobjs = <<DefaultConfig>>
  /\ cheap = <<>>
  /\ cset = NoMembers
  /\ clog = <<>>

\* a With* method of the builder has set field f to v and returned b
WithCall(f, v) == [op |-> "With", name |-> f, value |-> v]

\* a method of the builder is called and returns
BuilderLogged(call) ==
  /\ Len(clog) < MaxBuilderOps
  /\ clog' = Append(clog, call)
  /\ UNCHANGED <<limiterVars, httpVars, statsVars, keyVars, cset>>

\* part_001:230-233  b.WithRate(rate)
WithRate(v) ==
  /\ cobjs' = [cobjs EXCEPT ![Subject].Rate = v]
  /\ UNCHANGED cheap
  /\ BuilderLogged(WithCall("Rate", v))

\* part_001:236-239  b.WithBurst(burst)
WithBurst(v) ==
  /\ cobjs' = [cobjs EXCEPT ![Subject].Burst = v]
  /\ UNCHANGED cheap
  /\ BuilderLogged(WithCall("Burst", v))

\* part_001:242-245  b.WithWindow(window)
WithWindow(v) ==
  /\ cobjs' = [cobjs EXCEPT ![Subject].Window = v]
  /\ UNCHANGED cheap
  /\ BuilderLogged(WithCall("Window", v))

\* part_001:248-251  b.WithName(name)
WithName(v) ==
  /\ cobjs' = [cobjs EXCEPT ![Subject].Name = v]
  /\ UNCHANGED cheap
  /\ BuilderLogged(WithCall("Name", v))

\* part_001:254-257  b.WithEnabled(enabled)
WithEnabled(v) ==
  /\ cobjs' = [cobjs EXCEPT ![Subject].Enabled = v]
  /\ UNCHANGED cheap
  /\ BuilderLogged(WithCall("Enabled", v))

\* part_001:260-263  b.WithPerKeyLimits(enabled)
WithPerKeyLimits(v) ==
  /\ cobjs' = [cobjs EXCEPT ![Subject].PerKeyLimits = v]
  /\ UNCHANGED cheap
  /\ BuilderLogged(WithCall("PerKeyLimits", v))

\* part_001:266-269  b.WithErrorMessage(message)
WithErrorMessage(v) ==
  /\ cobjs' = [cobjs EXCEPT ![Subject].ErrorMessage = v]
  /\ UNCHANGED cheap
  /\ BuilderLogged(WithCall("ErrorMessage", v))

\* part_001:272-275  b.WithExcludedPaths(paths...): the variadic slice of
\* the call, nil when no path is given, is stored as it is
WithExcludedPaths(v) ==
  /\ cheap' = Placed(cheap, v = <<>>, v).heap
  /\ cobjs' = [cobjs EXCEPT ![Subject].ExcludedPaths =
                              Placed(cheap, v = <<>>, v).ref]
  /\ BuilderLogged(WithCall("ExcludedPaths", v))

\* part_001:278-281  b.WithExcludedIPs(ips...)
WithExcludedIPs(v) ==
  /\ cheap' = Placed(cheap, v = <<>>, v).heap
  /\ cobjs' = [cobjs EXCEPT ![Subject].ExcludedIPs =
                              Placed(cheap, v = <<>>, v).ref]
  /\ BuilderLogged(WithCall("ExcludedIPs", v))

\* part_001:284-287  b.WithCustomHeaders(headers): the caller's map, nil or
\* not, is stored as it is
WithCustomHeaders(isnil, v) ==
  /\ isnil => v = NoMembers
  /\ cheap' = Placed(cheap, isnil, v).heap
  /\ cobjs' = [cobjs EXCEPT ![Subject].CustomHeaders =
                              Placed(cheap, isnil, v).ref]
  /\ BuilderLogged(WithCall("CustomHeaders", v))

\* mutant of BuildError: Build does not validate
BuildErrorNone(c) == ""

\* part_001:291-293  the error of Build: that of b.config.Validate()
BuildError(c) == Validate(c)

\* part_001:290-295  b.Build(): nil and the error, or b.config.Clone()
Build ==
  /\ IF BuildError(cobjs[Subject]) # ""
       THEN /\ UNCHANGED <<cobjs, cheap>>
            /\ BuilderLogged([NoCall EXCEPT
                                !.op = "Build", !.ptr = Subject,
                                !.err = BuildError(cobjs[Subject]),
                                !.was = Deep(cobjs[Subject], cheap)])
       ELSE LET c == Clone(cobjs[Subject], cheap)
            IN /\ cobjs' = Append(cobjs, c.config)
               /\ cheap' = c.heap
               /\ BuilderLogged([NoCall EXCEPT
                                   !.op = "Build", !.ptr = Subject,
                                   !.out = Len(cobjs) + 1,
                                   !.was = Deep(cobjs[Subject], cheap),
                                   !.got = Deep(c.config, c.heap)])

BuilderNext ==
  \/ \E v \in CfgInts : WithRate(v)
  \/ \E v \in CfgInts : WithBurst(v)
  \/ \E v \in Windows : WithWindow(v)
  \/ \E v \in CfgNames : WithName(v)
  \/ \E v \in BOOLEAN : WithEnabled(v)
  \/ \E v \in BOOLEAN : WithPerKeyLimits(v)
  \/ \E v \in Messages : WithErrorMessage(v)
  \/ \E v \in PathLists : WithExcludedPaths(v)
  \/ \E v \in IPLists \cup {<<>>} : WithExcludedIPs(v)
  \/ \E isnil \in BOOLEAN, v \in HeaderMaps : WithCustomHeaders(isnil, v)
  \/ Build

BuilderSpec == BuilderInit /\ [][BuilderNext]_vars

\* ------------------------------------------------------------------------
\* Properties
\* ------------------------------------------------------------------------

Crit == {"now", "add", "check", "dec"}

\* C1  Burst admission: of the Allow calls made on a fresh bucket with no
\* elapsed time, exactly the first `burst` are admitted: never more than
\* burst, and a call is denied only once burst calls have been admitted.
BurstAdmission ==
  clock = 0 => /\ run.adm <= burst
               /\ run.denied => run.adm = burst

\* C1 witness: with no time elapsed, burst calls were admitted and the next
\* one was denied.
BurstAdmissionWitness ==
  clock = 0 /\ run.denied /\ run.adm = burst /\ admitted = burst

\* C2  Rate-limit upper bound: t seconds after creation at most
\* burst + rate*t calls have been admitted (t = clock*TickMs/1000, while the
\* history clock still counts).
RateUpperBound ==
  clock < MaxTime => admitted * 1000 <= burst * 1000 + rate * clock * TickMs

\* C2 witness: admissions beyond the burst, within one token of the bound.
RateUpperBoundWitness ==
  /\ 0 < clock /\ clock < MaxTime
  /\ admitted > burst
  /\ (admitted + 1) * 1000 > burst * 1000 + rate * clock * TickMs

\* C4  Token bounds: 0 <= tokens <= burst in every state, also inside a call.
TokenBounds == 0 <= tokens /\ tokens <= burst

\* C4 witness: a call after a long idle time whose refill was capped at burst.
TokenBoundsWitness ==
  \E p \in Procs :
    /\ pc[p] = "check"
    /\ elapsedL[p] = ElapsedCap(rate, burst)
    /\ preL[p] < burst
    /\ preL[p] + (elapsedL[p] * TickMs * rate) \div 1000 > burst
    /\ tokens = burst

\* C5  Atomic check-and-consume: at most one goroutine is between Lock and
\* Unlock, the call in progress decides and decrements on the value its own
\* refill stored, and of the calls made with no time elapsing between them
\* exactly min(number of calls, tokens available) are admitted.
AtomicCheckAndConsume ==
  /\ \A p, q \in Procs : pc[p] \in Crit /\ pc[q] \in Crit => p = q
  /\ \A p \in Procs : pc[p] \in Crit => mu = p
  /\ \A p \in Procs :
       pc[p] \in {"check", "dec"} =>
         tokens = min(preL[p] + (elapsedL[p] * TickMs * rate) \div 1000, burst)
  /\ \A p \in Procs : pc[p] = "dec" => tokens >= 1
  /\ run.adm <= run.avail
  /\ run.denied => run.adm = run.avail

\* C5 witness: one token left after time has passed, one goroutine about to
\* take it and the other one blocked in Lock.
AtomicCheckAndConsumeWitness ==
  \E p, q \in Procs :
    /\ pc[p] = "dec" /\ pc[q] = "lock" /\ tokens = 1
    /\ clock > 0

\* C8  Replenishment: a call that finds the bucket exhausted, made at least
\* burst/rate seconds after the previous call on the bucket, is admitted.
Replenishment ==
  [][\A p \in Procs :
       ( /\ pc[p] \in {"check", "dec"} /\ pc'[p] \notin {"check", "dec"}
         /\ preL[p] = 0
         /\ elapsedL[p] * TickMs * rate >= burst * 1000 )
       => ret'[p] = "true"]_vars

\* C8 witness: a call that found 0 tokens after burst/rate seconds and is
\* about to take a token.
ReplenishmentWitness ==
  \E p \in Procs :
    /\ pc[p] = "dec"
    /\ preL[p] = 0
    /\ elapsedL[p] > 0
    /\ elapsedL[p] * TickMs * rate >= burst * 1000

\* C9  Allow result and post-state: with r the token count after the refill
\* (min(found + elapsed*rate, burst)), the call returns true iff r >= 1 and
\* then leaves r - 1 tokens; otherwise it returns false and leaves r = 0.
AllowResult ==
  [][\A p \in Procs :
       (pc[p] \in {"check", "dec"} /\ pc'[p] \notin {"check", "dec"}) =>
         LET r == min(preL[p] + (elapsedL[p] * TickMs * rate) \div 1000, burst)
         IN /\ ret'[p] \in {"true", "false"}
            /\ (ret'[p] = "true") <=> (r >= 1)
            /\ ret'[p] = "true" => tokens' = r - 1
            /\ ret'[p] = "false" => (tokens' = r /\ tokens' = 0)]_vars

\* C9 witness: one call has returned false and another true; no token left.
AllowResultWitness ==
  \E p, q \in Procs :
    /\ ret[p] = "false" /\ pc[p] = "sleep"
    /\ ret[q] = "true" /\ pc[q] = "process"
    /\ tokens = 0

\* C10  Wait returns only on success: Wait returns right after an Allow call
\* of its own that returned true, the only such call of that Wait; after a
\* failed call the caller sleeps, for a time within a tick of 1/rate seconds
\* (1 ms short at most), and calls Allow again only when the sleep is over.
WaitReturnsOnSuccess ==
  [][\A p \in Procs :
       /\ (pc'[p] = "process" /\ pc[p] # "process") =>
            (ret'[p] = "true" /\ waitOK[p] = 0 /\ waitOK'[p] = 1)
       /\ (mode[p] = "wait" /\ ret'[p] = "false" /\ pc[p] = "check") =>
            /\ pc'[p] = "sleep"
            /\ waitOK'[p] = 0
            /\ sleepLeft'[p] * TickMs * rate > 1000 - rate
            /\ (sleepLeft'[p] - 1) * TickMs * rate < 1000
       /\ (pc[p] = "sleep" /\ pc'[p] # "sleep") =>
            (sleepLeft[p] = 0 /\ pc'[p] = "lock")]_vars

\* C10 witness: a Wait that slept after a failed call has returned.
WaitReturnsOnSuccessWitness ==
  \E p \in Procs : pc[p] = "process" /\ slept[p] /\ waitOK[p] = 1

\* C3  Wait liveness: under fair scheduling and advancing time every worker
\* of main gets through all its Wait calls, so all requests complete and
\* every worker ends.
WaitLiveness == <>(\A p \in Procs : pc[p] = "done")

\* C6  Fractional replenishment is not lost: once the calls made so far have
\* completed their refill, the tokens they credited together are less than
\* one token short of rate * (time from creation to the last call).  Stated
\* for the first ElapsedCap ticks, in which sinceUpdate has not saturated.
FractionsKept ==
  ( /\ clock <= ElapsedCap(rate, burst) /\ clock < MaxTime
    /\ \A p \in Procs : pc[p] # "add" )
  => (credited + 1) * 1000 > rate * (clock - sinceUpdate) * TickMs

\* C7  Long-run throughput: when every tick so far saw a call and ended with
\* the bucket empty and no call in progress (saturation: the callers took
\* every token there was), the calls admitted beyond the initial burst are
\* within 10% of rate * elapsed time, up to the token of the tick in progress.
Throughput ==
  (busy /\ 0 < clock /\ clock < MaxTime) =>
    /\ 10000 * (admitted - burst + 1) >= 9 * rate * (clock - 1) * TickMs
    /\ 10000 * (admitted - burst) <= 11 * rate * clock * TickMs

\* C11  Steady-state cadence: with rate = burst, once the initial burst is
\* used up the callers blocked in Wait are admitted one per 1/rate seconds;
\* so, time advancing and every goroutine running, a caller that sleeps in
\* Wait after a denial gets its admission.
Cadence ==
  \A p \in Procs : (rate = burst /\ pc[p] = "sleep") ~> (pc[p] = "process")

\* C12  Wait retry delay is never zero: whenever a goroutine is in the
\* time.Sleep of Wait on a bucket with positive rate and capacity, also with
\* a rate beyond 1000 per second, the duration it was given is at least one
\* millisecond.
RetryDelayPositive ==
  \A p \in Procs :
    (pc[p] = "sleep" /\ rate > 0 /\ burst > 0) => SleepMs(rate) >= 1

\* C13  Zero rate fails fast: on a bucket with rate 0 (and a capacity that
\* is valid) the retry delay is never computed, so no Wait ends in the
\* division by zero of 1000/rate.
ZeroRateFailsFast ==
  (rate = 0 /\ burst > 0) => \A p \in Procs : pc[p] # "panic"

\* C14  Pre-validated construction: every bucket that exists, also one built
\* by main from its command line, has rate > 0 and burst > 0.
PreValidated == rate > 0 /\ burst > 0

\* the instances the registry holds
Retained == {limiters[k] : k \in DOMAIN limiters}

\* C15  Registry single instance: every caller of PerKeyHTTPRateLimiter that
\* has got its limiter from LoadOrStore, concurrent first accesses included,
\* holds the one instance the registry keeps for its key, and an instance the
\* registry does not keep (a losing candidate) has never served an Allow.
SingleInstance ==
  /\ \A p \in Procs :
       (req[p].kind = "perkey" /\ req[p].fact # "panic" /\ hpc[p] # "store")
         => /\ req[p].key \in DOMAIN limiters
            /\ req[p].lim = limiters[req[p].key]
  /\ \A i \in DOMAIN heap :
       (i # HttpLimiter /\ i \notin Retained) => heap[i] = NewInstance

\* C15 witness: two concurrent first accesses for one key, each with its own
\* candidate, have both called Allow on the same instance.
SingleInstanceWitness ==
  \E p, q \in Procs :
    /\ p # q
    /\ hpc[p] = "respond" /\ hpc[q] = "respond"
    /\ req[p].first /\ req[q].first
    /\ req[p].key = req[q].key
    /\ req[p].cand # Nil /\ req[q].cand # Nil /\ req[p].cand # req[q].cand
    /\ req[p].lim = req[q].lim
    /\ req[p].allowed /\ ~req[q].allowed

\* C16  Registry entries are stable: no step removes a key or changes the
\* limiter stored for it, and a LoadOrStore for a key that is present
\* returns the limiter stored.
EntriesStable ==
  [][/\ \A k \in DOMAIN limiters :
          k \in DOMAIN limiters' /\ limiters'[k] = limiters[k]
     /\ \A p \in Procs :
          (hpc[p] = "store" /\ hpc'[p] # "store"
             /\ req[p].key \in DOMAIN limiters)
            => req'[p].lim = limiters[req[p].key]]_vars

\* C16 witness: a later access, which brought a candidate of its own, has
\* got the limiter stored before it came.
EntriesStableWitness ==
  \E p \in Procs :
    /\ hpc[p] = "allow" /\ req[p].kind = "perkey"
    /\ ~req[p].first
    /\ req[p].cand # Nil /\ req[p].lim # Nil
    /\ req[p].lim # req[p].cand
    /\ limiters[req[p].key] = req[p].lim

\* C17  Factory failure does not poison the registry: a request fails (with
\* a panic) only if its own factory call failed; a caller whose factory call
\* gave a limiter is served.
FactoryFailureContained ==
  \A p \in Procs : req[p].panicked => req[p].fact # "ok"

\* C18  Per-key isolation: two keys never hold the same limiter instance,
\* the limiter of a key changes only in an Allow call of a request with that
\* key, and what that call answers depends on that limiter alone.
PerKeyIsolation ==
  [][/\ \A k1, k2 \in DOMAIN limiters :
          (k1 # k2 /\ limiters[k1] # Nil) => limiters[k1] # limiters[k2]
     /\ \A k \in DOMAIN limiters :
          (limiters[k] # Nil /\ heap'[limiters[k]] # heap[limiters[k]])
            => \E p \in Procs :
                 /\ req[p].kind = "perkey" /\ req[p].key = k
                 /\ hpc[p] = "allow" /\ hpc'[p] = "respond"
     /\ \A p \in Procs :
          (req[p].kind = "perkey" /\ hpc[p] = "allow" /\ hpc'[p] = "respond")
            => req'[p].allowed = (heap[limiters[req[p].key]].tokens > 0)]_vars

\* C18 witness: the limiter of one key is exhausted and has denied a request
\* while the limiter of the other key is untouched.
PerKeyIsolationWitness ==
  \E p \in Procs : \E k \in DOMAIN limiters :
    /\ req[p].kind = "perkey" /\ req[p].status = StatusTooManyRequests
    /\ k # req[p].key
    /\ limiters[k] # Nil /\ limiters[req[p].key] # Nil
    /\ heap[limiters[k]].tokens = InstanceBurst
    /\ heap[limiters[req[p].key]].tokens = 0

\* C19  Middleware gating: a request calls Allow at most once; when it has
\* been answered Allow was called exactly once, and the next handler has run
\* (status 200) iff that call returned true, the error handler (status 429)
\* iff it returned false, never both.  A request through HTTPRateLimiter is
\* always answered.
MiddlewareGating ==
  \A p \in Procs :
    /\ req[p].calls <= 1
    /\ req[p].next =>
         (req[p].calls = 1 /\ req[p].allowed /\ ~req[p].err
            /\ req[p].status = StatusOK)
    /\ req[p].err =>
         (req[p].calls = 1 /\ ~req[p].allowed /\ ~req[p].next
            /\ req[p].status = StatusTooManyRequests)
    /\ (hpc[p] = "idle" /\ req[p].kind # "none" /\ ~req[p].panicked) =>
         (req[p].calls = 1 /\ (req[p].next \/ req[p].err))
    /\ req[p].kind = "http" => ~req[p].panicked

\* C19 witness: two requests served concurrently by HTTPRateLimiter, one
\* passed on to the next handler and one answered by the error handler.
MiddlewareGatingWitness ==
  \E p, q \in Procs :
    /\ req[p].kind = "http" /\ req[q].kind = "http"
    /\ hpc[p] = "respond" /\ req[p].calls = 1 /\ ~req[p].allowed
    /\ hpc[q] = "idle" /\ req[q].next /\ req[q].status = StatusOK
    /\ heap[HttpLimiter].tokens = 0

\* C20  Stats conservation: whenever no method holds the write lock, and in
\* every snapshot GetSnapshot has returned, TotalRequests is
\* AllowedRequests + DeniedRequests, whatever RecordAllowed, RecordDenied
\* and Reset calls ran or are running.
StatsConservation ==
  /\ smu.w = 0 =>
       stats.TotalRequests = stats.AllowedRequests + stats.DeniedRequests
  /\ \A p \in Procs :
       snap[p].taken =>
         snap[p].TotalRequests
           = snap[p].AllowedRequests + snap[p].DeniedRequests

\* C20 witness: a goroutine holds a snapshot that counts an allowed and a
\* denied request while another goroutine is in the middle of RecordAllowed,
\* the total already counted and the allowed count not yet.
StatsConservationWitness ==
  \E p, q \in Procs :
    /\ p # q
    /\ snap[p].taken
    /\ snap[p].AllowedRequests >= 1 /\ snap[p].DeniedRequests >= 1
    /\ spc[q] = "ra.allowed"
    /\ stats.TotalRequests # stats.AllowedRequests + stats.DeniedRequests

\* C21  No lost updates in Stats: whenever every RecordAllowed and
\* RecordDenied call made by the concurrent goroutines has finished,
\* AllowedRequests is the number of RecordAllowed calls, DeniedRequests the
\* number of RecordDenied calls and TotalRequests the number of both (counted
\* since NewStats or the last Reset).
NoLostUpdates ==
  (\A p \in Procs : spc[p] = "idle") =>
    /\ stats.AllowedRequests = scount.allowed
    /\ stats.DeniedRequests = scount.denied
    /\ stats.TotalRequests = scount.allowed + scount.denied

\* C21 witness: all calls have finished, among them two RecordAllowed and a
\* RecordDenied, the last of them after the clock moved on.
NoLostUpdatesWitness ==
  /\ \A p \in Procs : spc[p] = "idle"
  /\ scount.allowed >= 2 /\ scount.denied >= 1
  /\ stats.LastRequestTime > stats.StartTime

\* C22  Stats decorator transparency: a finished RateLimiterWithStats.Allow
\* has called the wrapped Allow once, returned its result and recorded one
\* allowed event if it was true, one denied event if it was false; a
\* finished Wait has called the wrapped Wait once and recorded one allowed
\* event; nothing is recorded before the wrapped call has returned and the
\* Record call has run.
DecoratorTransparency ==
  \A p \in Procs :
    /\ dec[p].op # "none" => dec[p].innerCalls = 1
    /\ dec[p].active =>
         dec[p].allowedEv = 0 /\ dec[p].deniedEv = 0 /\ dec[p].ret = "none"
    /\ (dec[p].op = "Allow" /\ ~dec[p].active) =>
         /\ dec[p].ret = IF dec[p].inner THEN "true" ELSE "false"
         /\ dec[p].allowedEv = IF dec[p].inner THEN 1 ELSE 0
         /\ dec[p].deniedEv = IF dec[p].inner THEN 0 ELSE 1
    /\ (dec[p].op = "Wait" /\ ~dec[p].active) =>
         /\ dec[p].ret = "returned"
         /\ dec[p].allowedEv = 1 /\ dec[p].deniedEv = 0

\* C22 witness: one goroutine's Wait has returned with the only token, the
\* other one's Allow has returned false, and Stats holds one event of each.
DecoratorTransparencyWitness ==
  \E p, q \in Procs :
    /\ dec[p].op = "Wait" /\ ~dec[p].active
    /\ dec[q].op = "Allow" /\ ~dec[q].active /\ ~dec[q].inner
    /\ stats.AllowedRequests = 1 /\ stats.DeniedRequests = 1

\* C23  Reset is a full state reset: as Reset returns, the three counters
\* are 0, StartTime is the time of the Reset and LastRequestTime is the zero
\* time, whatever was recorded before.
ResetIsFull ==
  [][\A p \in Procs :
       (spc[p] = "rs.times" /\ spc'[p] = "idle") =>
         /\ stats'.TotalRequests = 0
         /\ stats'.AllowedRequests = 0
         /\ stats'.DeniedRequests = 0
         /\ stats'.StartTime = snow
         /\ stats'.LastRequestTime = ZeroTime]_vars

\* C23 witness: a snapshot shows that events had been recorded, and a Reset
\* at a later time has since returned: the fields are those of a new Stats.
ResetIsFullWitness ==
  /\ \A p \in Procs : spc[p] = "idle"
  /\ \E p \in Procs :
       /\ snap[p].taken /\ snap[p].TotalRequests >= 1
       /\ snap[p].LastRequestTime # ZeroTime
       /\ snap[p].StartTime < stats.StartTime
  /\ stats.TotalRequests = 0 /\ stats.LastRequestTime = ZeroTime
  /\ stats.StartTime = snow

\* C24  Acceptance ratio: in every snapshot AcceptanceRatio is
\* AllowedRequests / TotalRequests, and 0 when TotalRequests is 0.
AcceptanceRatioExact ==
  \A p \in Procs :
    snap[p].taken =>
      /\ snap[p].AcceptanceRatio[2] > 0
      /\ snap[p].TotalRequests = 0 => snap[p].AcceptanceRatio[1] = 0
      /\ snap[p].AcceptanceRatio[1] * snap[p].TotalRequests
           = snap[p].AllowedRequests * snap[p].AcceptanceRatio[2]

\* C24 witness: a snapshot of two allowed requests and one denied one, with
\* ratio 2/3.
AcceptanceRatioExactWitness ==
  \E p \in Procs :
    /\ snap[p].taken
    /\ snap[p].AllowedRequests = 2 /\ snap[p].DeniedRequests = 1
    /\ snap[p].AcceptanceRatio = <<2, 3>>

\* C25  Snapshot duration: a snapshot that counts at least one event has
\* Duration = max(0, LastRequestTime - StartTime), also when the event was
\* recorded at the timestamp StartTime; one that counts none has the wall
\* time since StartTime.
DurationBetweenEvents ==
  \A p \in Procs :
    (snap[p].taken /\ snap[p].TotalRequests >= 1) =>
      snap[p].Duration
        = IF snap[p].LastRequestTime > snap[p].StartTime
            THEN snap[p].LastRequestTime - snap[p].StartTime
            ELSE 0

\* the four rules of a valid Config: Rate > 0, Burst > 0, Burst >= Rate,
\* Window >= 0
Acceptable(c) ==
  c.Rate > 0 /\ c.Burst > 0 /\ c.Burst >= c.Rate /\ c.Window >= 0

\* C26  Config.Validate returns an error exactly when Rate <= 0, or
\* Burst <= 0, or Burst < Rate, or Window < 0; the first violated rule in
\* that order gives the message; Burst = Rate is accepted; the Config is
\* left as it was.
ValidateRules ==
  (clog # <<>> /\ LastCall.op = "Validate") =>
    /\ (LastCall.err # "") <=> ~Acceptable(LastCall.was)
    /\ LastCall.was.Rate <= 0 => LastCall.err = "rate must be positive"
    /\ (LastCall.was.Rate > 0 /\ LastCall.was.Burst <= 0) =>
         LastCall.err = "burst must be positive"
    /\ (LastCall.was.Rate > 0 /\ LastCall.was.Burst > 0
          /\ LastCall.was.Burst < LastCall.was.Rate) =>
         LastCall.err = "burst must be greater than or equal to rate"
    /\ (LastCall.was.Rate > 0 /\ LastCall.was.Burst >= LastCall.was.Rate
          /\ LastCall.was.Window < 0) =>
         LastCall.err = "window must be non-negative"
    /\ Deep(cobjs[LastCall.ptr], cheap) = LastCall.was

\* C26 witness: Validate has accepted a Config whose burst equals its rate.
ValidateRulesWitness ==
  /\ clog # <<>>
  /\ LastCall.op = "Validate" /\ LastCall.err = ""
  /\ LastCall.was.Burst = LastCall.was.Rate

\* C27  Save/load round trip: for every valid Config, LoadFromReader on what
\* SaveToWriter wrote succeeds and gives a Config equal in every field,
\* zero and empty values included (a nil and an empty slice or map count as
\* equal here).
RoundTrip ==
  (clog # <<>> /\ LastCall.op = "SaveLoad" /\ Acceptable(LastCall.was)) =>
    /\ LastCall.err = "" /\ LastCall.out # Nil
    /\ LastCall.out # Nil =>
         /\ cobjs[LastCall.out].Rate = LastCall.was.Rate
         /\ cobjs[LastCall.out].Burst = LastCall.was.Burst
         /\ cobjs[LastCall.out].Window = LastCall.was.Window
         /\ cobjs[LastCall.out].Name = LastCall.was.Name
         /\ cobjs[LastCall.out].Enabled = LastCall.was.Enabled
         /\ cobjs[LastCall.out].PerKeyLimits = LastCall.was.PerKeyLimits
         /\ cobjs[LastCall.out].ErrorMessage = LastCall.was.ErrorMessage
         /\ Elems(cheap, cobjs[LastCall.out].ExcludedPaths)
              = LastCall.was.ExcludedPaths.elems
         /\ Elems(cheap, cobjs[LastCall.out].ExcludedIPs)
              = LastCall.was.ExcludedIPs.elems
         /\ DOMAIN Elems(cheap, cobjs[LastCall.out].CustomHeaders)
              = DOMAIN LastCall.was.CustomHeaders.elems
         /\ \A k \in DOMAIN LastCall.was.CustomHeaders.elems :
              Elems(cheap, cobjs[LastCall.out].CustomHeaders)[k]
                = LastCall.was.CustomHeaders.elems[k]

\* C28  LoadFromReader returns a Config exactly when it returns no error,
\* and then the document was decoded, the Config passes Validate, its
\* fields are the members of the document, and the fields whose members are
\* absent have the DefaultConfig values (Rate 10, Burst 20, Window 1s,
\* Enabled true, ErrorMessage "Too Many Requests").
LoadChecked ==
  (clog # <<>> /\ LastCall.op = "Load") =>
    /\ (LastCall.out # Nil) <=> (LastCall.err = "")
    /\ ~LastCall.doc.ok => LastCall.out = Nil
    /\ LastCall.out # Nil =>
         LET c == Deep(cobjs[LastCall.out], cheap)
             m == LastCall.doc.members
         IN /\ Acceptable(c)
            /\ c.Rate = IF "rate" \in DOMAIN m THEN m["rate"]
                        ELSE DefaultRate
            /\ c.Burst = IF "burst" \in DOMAIN m THEN m["burst"]
                         ELSE DefaultBurst
            /\ c.Window = IF "window" \in DOMAIN m THEN m["window"]
                          ELSE DefaultWindow
            /\ c.Enabled = IF "enabled" \in DOMAIN m THEN m["enabled"]
                           ELSE TRUE
            /\ c.ErrorMessage
                 = IF "error_message" \in DOMAIN m THEN m["error_message"]
                   ELSE DefaultErrorMessage
            /\ "name" \in DOMAIN m => c.Name = m["name"]
            /\ "excluded_paths" \in DOMAIN m =>
                 c.ExcludedPaths.elems = m["excluded_paths"]

\* C28 witness: a document with a rate and a burst only has been loaded, and
\* the Config returned is enabled with the default window and message.
LoadCheckedWitness ==
  /\ clog # <<>>
  /\ LastCall.op = "Load" /\ LastCall.out # Nil
  /\ DOMAIN LastCall.doc.members = {"rate", "burst"}
  /\ cobjs[LastCall.out].Rate < DefaultRate
  /\ cobjs[LastCall.out].Enabled
  /\ cobjs[LastCall.out].Window = DefaultWindow
  /\ cobjs[LastCall.out].ErrorMessage = DefaultErrorMessage

RECURSIVE Expected(_)
\* the entries the calls of log leave in a ConfigSet: for each name the
\* Config of its last accepted Add, unless a Remove of the name came later
Expected(log) ==
  IF log = <<>> THEN NoMembers
  ELSE LET e == log[Len(log)]
           rest == Expected(SubSeq(log, 1, Len(log) - 1))
       IN IF e.op = "Add" /\ e.name # "" /\ e.ptr # Nil
               /\ Acceptable(cobjs[e.ptr])
            THEN Member(e.name, e.ptr) @@ rest
          ELSE IF e.op = "Remove"
            THEN [n \in DOMAIN rest \ {e.name} |-> rest[n]]
          ELSE rest

\* C29  ConfigSet: Add fails and leaves the set unchanged when the name is
\* empty, the config nil or not valid, and succeeds otherwise; Get(name)
\* returns the Config of the last accepted Add of the name with exists true
\* until Remove(name), after which the name is absent; Names returns
\* exactly the names in the set, each once, after any sequence of calls.
ConfigSetTracks ==
  /\ DOMAIN cset = DOMAIN Expected(clog)
  /\ \A n \in DOMAIN cset : cset[n] = Expected(clog)[n]
  /\ clog # <<>> =>
       /\ LastCall.op = "Add" =>
            ((LastCall.err # "") <=>
               (LastCall.name = "" \/ LastCall.ptr = Nil
                  \/ ~Acceptable(cobjs[LastCall.ptr])))
       /\ LastCall.op = "Get" =>
            /\ LastCall.exists <=> LastCall.name \in DOMAIN Expected(clog)
            /\ LastCall.exists =>
                 LastCall.out = Expected(clog)[LastCall.name]
       /\ LastCall.op = "Names" =>
            /\ {LastCall.names[i] : i \in DOMAIN LastCall.names}
                 = DOMAIN Expected(clog)
            /\ Len(LastCall.names) = Cardinality(DOMAIN Expected(clog))

\* C29 witness: a name was added with one Config and then with another
\* one, Get has just returned the second, and the set holds that name only.
ConfigSetTracksWitness ==
  /\ Len(clog) = 3
  /\ clog[1].op = "Add" /\ clog[1].err = ""
  /\ clog[2].op = "Add" /\ clog[2].err = "" /\ clog[2].name = clog[1].name
  /\ clog[2].ptr # clog[1].ptr
  /\ clog[3].op = "Get" /\ clog[3].name = clog[1].name
  /\ clog[3].exists /\ clog[3].out = clog[2].ptr
  /\ DOMAIN cset = {clog[1].name}

\* C30  Clone independence: the Config returned by Clone, and so by Build,
\* equals the source in every field at the time of the copy and shares no
\* slice or map with it: a change of an element of ExcludedPaths or
\* ExcludedIPs or of an entry of CustomHeaders on one side leaves the other
\* side as it was.
CloneIndependent ==
  (clog # <<>> /\ LastCall.op \in {"Clone", "Build"}
     /\ LastCall.out # Nil) =>
    /\ LastCall.got = LastCall.was
    /\ \A f \in RefFields :
         cobjs[LastCall.ptr][f] # Nil =>
           cobjs[LastCall.out][f] # cobjs[LastCall.ptr][f]
    /\ LastCall.touched # "original" =>
         Deep(cobjs[LastCall.ptr], cheap) = LastCall.was
    /\ LastCall.touched # "clone" =>
         Deep(cobjs[LastCall.out], cheap) = LastCall.got

\* C30 witness: an entry of CustomHeaders of a Config that Build returned
\* has been changed, and the builder's map still has the old value.
CloneIndependentWitness ==
  /\ clog # <<>>
  /\ LastCall.op = "Build" /\ LastCall.touched = "clone"
  /\ Elems(cheap, cobjs[LastCall.out].CustomHeaders)
       # LastCall.got.CustomHeaders.elems
  /\ Elems(cheap, cobjs[LastCall.ptr].CustomHeaders)
       = LastCall.was.CustomHeaders.elems

RECURSIVE LastSet(_, _, _)
\* the value the last With* call of log gave to field f, or else d
LastSet(log, f, d) ==
  IF log = <<>> THEN d
  ELSE IF log[Len(log)].op = "With" /\ log[Len(log)].name = f
    THEN log[Len(log)].value
  ELSE LastSet(SubSeq(log, 1, Len(log) - 1), f, d)

\* the Config the With* calls of log describe: for each field the value set
\* last, the DefaultConfig value for a field never set
Described(log) ==
  [Rate |-> LastSet(log, "Rate", DefaultRate),
   Burst |-> LastSet(log, "Burst", DefaultBurst),
   Window |-> LastSet(log, "Window", DefaultWindow),
   Name |-> LastSet(log, "Name", ""),
   Enabled |-> LastSet(log, "Enabled", TRUE),
   PerKeyLimits |-> LastSet(log, "PerKeyLimits", FALSE),
   ErrorMessage |-> LastSet(log, "ErrorMessage", DefaultErrorMessage),
   ExcludedPaths |-> LastSet(log, "ExcludedPaths", <<>>),
   ExcludedIPs |-> LastSet(log, "ExcludedIPs", <<>>),
   CustomHeaders |-> LastSet(log, "CustomHeaders", NoMembers)]

\* C31  Builder.Build returns a Config with exactly the values last set
\* through the With* calls, and the defaults for the fields never set, when
\* these pass Validate; it returns an error and no Config when they do not.
BuilderCarries ==
  (clog # <<>> /\ LastCall.op = "Build") =>
    IF Acceptable(Described(clog))
      THEN /\ LastCall.err = "" /\ LastCall.out # Nil
           /\ LastCall.out # Nil =>
                /\ cobjs[LastCall.out].Rate = Described(clog).Rate
                /\ cobjs[LastCall.out].Burst = Described(clog).Burst
                /\ cobjs[LastCall.out].Window = Described(clog).Window
                /\ cobjs[LastCall.out].Name = Described(clog).Name
                /\ cobjs[LastCall.out].Enabled = Described(clog).Enabled
                /\ cobjs[LastCall.out].PerKeyLimits
                     = Described(clog).PerKeyLimits
                /\ cobjs[LastCall.out].ErrorMessage
                     = Described(clog).ErrorMessage
                /\ Elems(cheap, cobjs[LastCall.out].ExcludedPaths)
                     = Described(clog).ExcludedPaths
                /\ Elems(cheap, cobjs[LastCall.out].ExcludedIPs)
                     = Described(clog).ExcludedIPs
                /\ DOMAIN Elems(cheap, cobjs[LastCall.out].CustomHeaders)
                     = DOMAIN Described(clog).CustomHeaders
                /\ \A k \in DOMAIN Described(clog).CustomHeaders :
                     Elems(cheap, cobjs[LastCall.out].CustomHeaders)[k]
                       = Described(clog).CustomHeaders[k]
      ELSE LastCall.err # "" /\ LastCall.out = Nil

\* C31 witness: the rate was set twice, and Build has returned a Config
\* with the second rate and the default burst and message.
BuilderCarriesWitness ==
  /\ Len(clog) = 3
  /\ clog[1].op = "With" /\ clog[1].name = "Rate"
  /\ clog[2].op = "With" /\ clog[2].name = "Rate"
  /\ clog[2].value # clog[1].value
  /\ clog[3].op = "Build" /\ clog[3].out # Nil
  /\ cobjs[clog[3].out].Rate = clog[2].value
  /\ cobjs[clog[3].out].Burst = DefaultBurst
  /\ cobjs[clog[3].out].ErrorMessage = DefaultErrorMessage

\* C32  DefaultKeyFunc precedence: the key is the X-Forwarded-For value when
\* it is not empty, else the X-Real-IP value when it is not empty, else
\* RemoteAddr; ByUserID and ByAPIKey give the value of their header when it
\* is not empty, else "anonymous" and "no-api-key".
KeyPrecedence ==
  \A i \in DOMAIN klog :
    /\ kfunc = "ByIP" =>
         klog[i].key
           = IF klog[i].r.XForwardedFor \notin {<<>>, <<"">>}
               THEN klog[i].r.XForwardedFor[1]
             ELSE IF klog[i].r.XRealIP \notin {<<>>, <<"">>}
               THEN klog[i].r.XRealIP[1]
             ELSE klog[i].r.RemoteAddr
    /\ kfunc = "ByUserID" =>
         klog[i].key
           = IF klog[i].r.XUserID \notin {<<>>, <<"">>}
               THEN klog[i].r.XUserID[1] ELSE "anonymous"
    /\ kfunc = "ByAPIKey" =>
         klog[i].key
           = IF klog[i].r.XAPIKey \notin {<<>>, <<"">>}
               THEN klog[i].r.XAPIKey[1] ELSE "no-api-key"

\* C32 witness: served by IP, a request with both headers got the
\* X-Forwarded-For value as its key, and one whose X-Forwarded-For is empty
\* got the X-Real-IP value.
KeyPrecedenceWitness ==
  /\ kfunc = "ByIP"
  /\ Len(klog) = 2
  /\ klog[1].r.XForwardedFor = <<"1.1.1.1">>
  /\ klog[1].r.XRealIP = <<"2.2.2.2">>
  /\ klog[1].key = "1.1.1.1"
  /\ klog[2].r.XForwardedFor = <<"">>
  /\ klog[2].key = "2.2.2.2"

\* C34  KeyFuncs.Combination is injective on the tuple of component keys:
\* two requests whose component key functions give different tuples get
\* different combined keys and do not share a per-key limiter.
CombinationInjective ==
  kfunc = "Combination" =>
    \A i, j \in DOMAIN klog :
      (<<ByUserID(klog[i].r), ByAPIKey(klog[i].r)>>
         # <<ByUserID(klog[j].r), ByAPIKey(klog[j].r)>>) =>
        /\ klog[i].key # klog[j].key
        /\ klog[i].lim # klog[j].lim

\* C33  The limiter factory is invoked only when the key of the request has
\* no stored limiter at the time of the access: a request that finds a
\* limiter stored for its key has not called the factory and has built no
\* limiter.
FactoryOnlyWhenAbsent ==
  \A p \in Procs :
    (req[p].kind = "perkey" /\ ~req[p].first) =>
      req[p].fact = "none" /\ req[p].cand = Nil

\* C35  HTTPRateLimiter applies its single injected limiter to every
\* request: it never calls the KeyFunc, never writes its limiters map, and
\* calls Allow on the injected limiter whatever the key of the request.
SingleLimiterForAll ==
  /\ DOMAIN hlimiters = {}
  /\ \A p \in Procs :
       req[p].kind = "http" =>
         /\ req[p].key = "none" /\ req[p].fact = "none"
         /\ req[p].lim = HttpLimiter

\* C35 witness: two requests of different clients have been served by the
\* HTTPRateLimiter, the first took the only token of the injected limiter
\* and the second was refused.
SingleLimiterForAllWitness ==
  \E p, q \in Procs :
    /\ req[p].kind = "http" /\ req[q].kind = "http"
    /\ req[p].client # req[q].client
    /\ hpc[p] = "idle" /\ req[p].next /\ req[p].status = StatusOK
    /\ hpc[q] = "idle" /\ req[q].err
    /\ req[q].status = StatusTooManyRequests

====
